---- MODULE Spec2Model ----
(***************************************************************************)
(* Storage coordination layer of the self-destructing file sharing         *)
(* gateway: the token lock manager (DistributedLockManager over            *)
(* RedisSentinelClient), the RedisClient lock / counter / cache wrapper,   *)
(* the chunked upload session (chunk_upload, chunk_complete) and the       *)
(* download handler (download_file), the NodeSelector, the                 *)
(* HealthCheckMonitor and the ReplicationManager.                          *)
(*                                                                         *)
(* Specifications:                                                         *)
(*   SpecDLM      callers of DistributedLockManager on one resource        *)
(*   SpecSession  one client: chunk_upload requests, then chunk_complete   *)
(*   SpecFinalize concurrent chunk_complete calls on one session           *)
(*   SpecDownload chunk_complete, then concurrent download_file requests   *)
(*   Spec         chunk_complete, then download_file requests one by one   *)
(*   SpecSelector  NodeSelector calls over a three-node table              *)
(*   SpecFairness  a run of uploads of one size over nodes that start alike*)
(*   SpecHealth    HealthCheckMonitor.check_all_nodes sweeps               *)
(*   SpecRegistry  ReplicationManager health checks and selections         *)
(*   SpecReplicate a ReplicationManager.replicate_file call                *)
(*   SpecPromote   an upload, then a handle_primary_failure call           *)
(*   SpecFailover  an upload, then HealthCheckMonitor.trigger_failover     *)
(*   SpecLockTtl   lock holders that never release, under fair expiry      *)
(*   SpecOverlap   chunk_upload requests overlapping chunk_complete        *)
(*   SpecUploads   concurrent chunk_upload requests on one session         *)
(*   SpecFallback  RedisClient calls on Redis and on InMemoryCache         *)
(*   SpecMonitor   the HealthCheckMonitor loop on a new table              *)
(***************************************************************************)
EXTENDS Integers, Sequences, FiniteSets, TLC

\* ------------------------------------------------------------------------
\* Bounds of the model
\* ------------------------------------------------------------------------
MaxTokens == 3
\* chunk_complete calls made on the session (each may generate one file id)
MaxFinalizeCalls == 2
\* largest download_limit a client asks for
MaxLimit == 2
\* largest parts_expected of a session
MaxParts == 2
\* chunk_upload requests made on the session
MaxUploads == 3
\* download_file requests made
MaxDownloads == 3
\* NodeSelector calls made on their own
MaxSelCalls == 2
\* uploads of a run
MaxRun == 6
\* largest number of replicas asked of select_replica_nodes
MaxCount == 2
\* check_all_nodes sweeps
MaxSweeps == 3
\* rounds of _monitor_loop
MaxLoops == 7
\* longest replica_nodes list passed to replicate_file
MaxReplicas == 2

\* ------------------------------------------------------------------------
\* Program constants
\* ------------------------------------------------------------------------
default_timeout == 30
\* extend(..., additional_timeout: int = 10)
additional_timeout == 10
MB == 1048576
SpaceBufferMb == 50
MaxErrorCount == 10
REPLICATION_FACTOR == 2
DOWNLOAD_LIMIT == 3

\* ========================================================================
\* DistributedLockManager over RedisSentinelClient
\* ========================================================================
VARIABLES
    dlmDecode,   \* decode_responses of the connection: TRUE direct, FALSE via Sentinel
    dlmVal,      \* token stored under lock:{type}:{id}; NoToken when the key is absent
    dlmTtl,      \* TTL of the key in seconds; 0 when the key is absent
    dlmNext,     \* number of uuid4 tokens generated so far
    dpc,         \* per caller: "idle", "rel_del" after release's GET, "ext_exp" after extend's GET
    dtok,        \* per caller: token returned by its last successful acquire
    darg,        \* per caller: lock_token argument of its current / last release
    dres,        \* per caller: return value of its last call
    dlast        \* per caller: name of its last completed call

dlmVars == <<dlmDecode, dlmVal, dlmTtl, dlmNext, dpc, dtok, darg, dres, dlast>>

\* Gateway state: RedisClient keys, metadata store, storage nodes, sessions
VARIABLES
    usingFallback, \* RedisClient.using_fallback: InMemoryCache instead of Redis
    manifest,      \* value cached under upload:{upload_id}
    chunkFiles,    \* part_{n} files of the session's temp_dir: part -> <<bytes>> or <<>>
    latest,        \* ghost: bytes of the last accepted upload of each part
    upLock,        \* lock:upload:{upload_id}:lock: "free" or the call that set it
    fcalls,        \* chunk_complete calls started so far
    ucalls,        \* chunk_upload requests started so far
    nodes,         \* StorageNode rows
    disk,          \* files on each node's path: node -> file id -> <<bytes>> or <<>>
    dbFiles,       \* File rows: file id -> record
    counters,      \* count:{file_id} keys
    metaCache,     \* file_metadata:{file_id} keys: present or not
    upc, ureq, umf,    \* chunk_upload requests: position, arguments, manifest read
    uresp,             \* chunk_upload requests: last response
    fpc, freq, fmf,    \* chunk_complete calls: position, arguments, manifest read
    fprim, fidx,       \* chunk_complete calls: primary_node, idx of the stitch loop
    freps, fout,       \* chunk_complete calls: replica_nodes, response being returned
    quiet,             \* ghost: no chunk_upload ran since the call read the manifest
    flog               \* ghost: per call number, its arguments and its response

storeVars == <<usingFallback, manifest, chunkFiles, latest, upLock, fcalls, ucalls, nodes,
               disk, dbFiles, counters, metaCache>>
upVars == <<upc, ureq, umf, uresp>>
finVars == <<fpc, freq, fmf, fprim, fidx, freps, fout, quiet, flog>>

\* download_file requests
VARIABLES
    dlLock,        \* lock:download_lock:{file_id}: "free" or the request that set it
    dcalls,        \* download_file requests started so far
    dlpc,          \* per request: position in download_file
    dlfile,        \* per request: file_id
    dlret,         \* per request: downloads_left, the value decrement_counter returned
    dlout,         \* per request: response being returned
    served,        \* ghost: per file, number of send_file responses
    consumed,      \* ghost: per file, the values decrement_counter returned, in order
    dlog           \* ghost: per file, the finished requests: response, File.downloads_left

dlVars == <<dlLock, dcalls, dlpc, dlfile, dlret, dlout, served, consumed, dlog>>

\* NodeSelector calls made on their own, and runs of uploads
VARIABLES
    selCalls,      \* calls made so far
    selLast,       \* ghost: the last call: arguments, rows it started from, result
    primCount      \* ghost: per node, uploads that took it as primary_node

selVars == <<selCalls, selLast, primCount>>

\* HealthCheckMonitor
VARIABLES
    hcSweeps,      \* check_all_nodes calls made so far
    hcLast         \* ghost: the last call: rows it started from, check results, outcome

hcVars == <<hcSweeps, hcLast>>

\* ReplicationManager
VARIABLES
    node_health,   \* self.node_health: per node, status, file_count, used_space
    rmLast,        \* ghost: the last call: its arguments, the registry before, result
    rfpc,          \* replicate_file: position
    rfreq,         \* replicate_file: primary_node, replica_nodes, db; ghost: the files row then
    rfidx,         \* replicate_file: index of the next replica_node_id of the loop
    results,       \* replicate_file: the results dict, as its items in insertion order
    fileRec,       \* the files row of the file: primary_node, replica_nodes
    rflog          \* ghost: replicate_file: per loop pass, the replica and what happened

\* ReplicationManager.handle_primary_failure and HealthCheckMonitor.trigger_failover
VARIABLES
    hpc,           \* handle_primary_failure: position
    hreq,          \* handle_primary_failure: failed_primary, replica_nodes, db
    hidx,          \* handle_primary_failure: index of the next replica_node of the loop
    hret,          \* handle_primary_failure: the value returned
    hlog,          \* ghost: per loop pass, the candidate and _check_node_health's verdict
    hrec,          \* ghost: the files row when the call started
    tfLast         \* ghost: the last trigger_failover call: argument, row before, outcome

\* RedisClient.acquire_lock calls made on their own
VARIABLES
    lkTaken        \* ghost: the callers whose acquire_lock on the upload lock returned True

lkVars == <<lkTaken>>

\* RedisClient over Redis and over InMemoryCache, the same calls made on both
VARIABLES
    rkv,           \* the keys lock:{key} and count:{file_id} in Redis
    mkv,           \* the same keys in InMemoryCache.data / .expiry
    fbLast         \* ghost: the last call and what it returned over each store

fbVars == <<rkv, mkv, fbLast>>
rmVars == <<node_health, rmLast>>
rfVars == <<rfpc, rfreq, rfidx, results, fileRec, rflog>>
hpVars == <<hpc, hreq, hidx, hret, hlog, hrec, tfLast>>
auxVars == <<selVars, hcVars, rmVars, rfVars, hpVars, lkVars, fbVars>>
gwVars == <<storeVars, upVars, finVars, dlVars, auxVars>>

vars == <<dlmVars, gwVars>>

Callers == {"A", "B"}
NoToken == 0

\* Python values returned to the caller
PyNone == <<"none", 0>>
PyStr(t) == <<"str", t>>
PyBytes(t) == <<"bytes", t>>
PyBool(b) == <<"bool", IF b THEN 1 ELSE 0>>

\* RedisSentinelClient.get: the stored value, None when absent or on error;
\* bytes unless the connection decodes responses
SentinelGet(ok) ==
    IF ~ok \/ dlmVal = NoToken THEN PyNone
    ELSE IF dlmDecode THEN PyStr(dlmVal) ELSE PyBytes(dlmVal)

\* RedisSentinelClient.set(key, value, ex): SETEX when ex is given, else SET;
\* both overwrite; returns True unless the call raised
SentinelSetVal(ok, value) == IF ok THEN value ELSE dlmVal
SentinelSetTtl(ok, ex) == IF ok THEN ex ELSE dlmTtl

\* current_token == lock_token
TokenMatches_Always(current, token) == TRUE
TokenMatches(current, token) == current = PyStr(token)

\* DistributedLockManager.acquire(resource_type, resource_id)
DlmAcquire(c) ==
    /\ dpc[c] = "idle"
    /\ dlmNext < MaxTokens
    /\ \E ok \in BOOLEAN :
        LET lock_token == dlmNext + 1
            acquired == ok
        IN  /\ dlmNext' = lock_token
            /\ dlmVal' = SentinelSetVal(ok, lock_token)
            /\ dlmTtl' = SentinelSetTtl(ok, default_timeout)
            /\ dres' = [dres EXCEPT ![c] = IF acquired THEN PyStr(lock_token) ELSE PyNone]
            /\ dtok' = [dtok EXCEPT ![c] = IF acquired THEN lock_token ELSE @]
    /\ dlast' = [dlast EXCEPT ![c] = "acquire"]
    /\ UNCHANGED <<dlmDecode, dpc, darg>>
    /\ UNCHANGED gwVars

\* DistributedLockManager.release, first half: GET and compare
DlmReleaseGet(c) ==
    /\ dpc[c] = "idle"
    /\ \E token \in 1..MaxTokens, ok \in BOOLEAN :
        /\ token <= dlmNext
        /\ darg' = [darg EXCEPT ![c] = token]
        /\ IF TokenMatches(SentinelGet(ok), token)
           THEN /\ dpc' = [dpc EXCEPT ![c] = "rel_del"]
                /\ UNCHANGED <<dres, dlast>>
           ELSE /\ dres' = [dres EXCEPT ![c] = PyBool(FALSE)]
                /\ dlast' = [dlast EXCEPT ![c] = "release"]
                /\ UNCHANGED dpc
    /\ UNCHANGED <<dlmDecode, dlmVal, dlmTtl, dlmNext, dtok>>
    /\ UNCHANGED gwVars

\* DistributedLockManager.release, second half: DELETE and return True
DlmReleaseDelete(c) ==
    /\ dpc[c] = "rel_del"
    /\ \E ok \in BOOLEAN :
        /\ dlmVal' = IF ok THEN NoToken ELSE dlmVal
        /\ dlmTtl' = IF ok THEN 0 ELSE dlmTtl
    /\ dpc' = [dpc EXCEPT ![c] = "idle"]
    /\ dres' = [dres EXCEPT ![c] = PyBool(TRUE)]
    /\ dlast' = [dlast EXCEPT ![c] = "release"]
    /\ UNCHANGED <<dlmDecode, dlmNext, dtok, darg>>
    /\ UNCHANGED gwVars

\* DistributedLockManager.extend, first half: GET and compare
DlmExtendGet(c) ==
    /\ dpc[c] = "idle"
    /\ \E token \in 1..MaxTokens, ok \in BOOLEAN :
        /\ token <= dlmNext
        /\ darg' = [darg EXCEPT ![c] = token]
        /\ IF TokenMatches(SentinelGet(ok), token)
           THEN /\ dpc' = [dpc EXCEPT ![c] = "ext_exp"]
                /\ UNCHANGED <<dres, dlast>>
           ELSE /\ dres' = [dres EXCEPT ![c] = PyBool(FALSE)]
                /\ dlast' = [dlast EXCEPT ![c] = "extend"]
                /\ UNCHANGED dpc
    /\ UNCHANGED <<dlmDecode, dlmVal, dlmTtl, dlmNext, dtok>>
    /\ UNCHANGED gwVars

\* RedisSentinelClient.expire(key, seconds): EXPIRE sets the TTL of the key
\* that is stored, whatever its value, and does nothing when there is none
SentinelExpireTtl(ok, seconds) == IF ok /\ dlmVal # NoToken THEN seconds ELSE dlmTtl

\* DistributedLockManager.extend, second half: EXPIRE with default_timeout +
\* additional_timeout, its result dropped, and return True
DlmExtendExpire(c) ==
    /\ dpc[c] = "ext_exp"
    /\ \E ok \in BOOLEAN :
        dlmTtl' = SentinelExpireTtl(ok, default_timeout + additional_timeout)
    /\ dpc' = [dpc EXCEPT ![c] = "idle"]
    /\ dres' = [dres EXCEPT ![c] = PyBool(TRUE)]
    /\ dlast' = [dlast EXCEPT ![c] = "extend"]
    /\ UNCHANGED <<dlmDecode, dlmVal, dlmNext, dtok, darg>>
    /\ UNCHANGED gwVars

\* The store drops the key when its TTL runs out
DlmExpire ==
    /\ dlmVal # NoToken
    /\ dlmVal' = NoToken
    /\ dlmTtl' = 0
    /\ UNCHANGED <<dlmDecode, dlmNext, dpc, dtok, darg, dres, dlast>>
    /\ UNCHANGED gwVars


\* ========================================================================
\* Gateway state: RedisClient keys, metadata store, storage nodes, sessions
\* ========================================================================

Nodes == {"node1", "node2"}
\* the table of the selector's own runs
SelNodes == {"node1", "node2", "node3"}
Uploaders == {"u1", "u2"}
Finalizers == {"f1", "f2"}
FileIds == 1..MaxFinalizeCalls
NoNode == "none"

\* chunk bodies a client sends; <<>> is the empty body
ChunkData == {<<1>>, <<2>>}
NoChecksum == <<"none", <<>>>>
\* generate_checksum: SHA-256 of the file's bytes (collision free)
Checksum(bytes) == <<"sha256", bytes>>

RECURSIVE Concat(_, _, _)
\* bytes of parts lo..hi of f, in ascending part number
Concat(f, lo, hi) == IF lo > hi THEN <<>> ELSE f[lo] \o Concat(f, lo + 1, hi)

\* math.ceil(total_size / chunk_size)
Ceil(a, b) == (a + b - 1) \div b

NoManifest ==
    [exists |-> FALSE, total_size |-> 0, parts_expected |-> 0, received |-> 0,
     order |-> <<>>, parts |-> <<>>, status |-> "none"]

\* chunk_init: the manifest created for (total_size, chunk_size)
NewManifest(total_size, chunk_size) ==
    [exists |-> TRUE, total_size |-> total_size,
     parts_expected |-> Ceil(total_size, chunk_size), received |-> 0,
     order |-> <<>>, parts |-> <<>>, status |-> "in_progress"]

SeqRange(s) == {s[i] : i \in DOMAIN s}

\* parts[str(part_number)] = {...}: a dict assignment keeps the position of an
\* existing key and appends a new one; parts is kept as order (the keys, in
\* insertion order) and the entries in the same positions
PutPart_AlwaysAppend(m, p, entry) ==
    [m EXCEPT !.order = Append(m.order, p), !.parts = Append(m.parts, entry)]
PutPart(m, p, entry) ==
    IF p \in SeqRange(m.order)
    THEN [m EXCEPT !.parts = [i \in DOMAIN m.order |->
                                IF m.order[i] = p THEN entry ELSE m.parts[i]]]
    ELSE [m EXCEPT !.order = Append(m.order, p), !.parts = Append(m.parts, entry)]

\* parts.get(str(idx)) is not None
HasPart(m, idx) == idx \in SeqRange(m.order)

NoFile ==
    [exists |-> FALSE, file_size |-> 0, primary_node |-> NoNode,
     replica_nodes |-> <<>>, download_limit |-> 0, downloads_left |-> 0,
     checksum |-> NoChecksum]

NoCounter == [present |-> FALSE, val |-> 0]

\* ------------------------------------------------------------------------
\* NodeSelector
\* ------------------------------------------------------------------------
FreeSpace(n) == nodes[n].total_space - nodes[n].used_space

\* min_space_mb = int(file_size / (1024 * 1024) + 50)
MinSpaceMb(file_size) == (file_size \div MB) + SpaceBufferMb

\* the filter of get_healthy_nodes over the rows ns
IsHealthy(ns, n, min_free_space_mb) ==
    /\ ns[n].is_online
    /\ ns[n].fresh
    /\ ns[n].error_count < MaxErrorCount
    /\ ns[n].total_space - ns[n].used_space >= min_free_space_mb * MB

\* ORDER BY error_count ASC, free space DESC: a before-or-tied-with b
RankedBefore(ns, a, b) ==
    \/ ns[a].error_count < ns[b].error_count
    \/ /\ ns[a].error_count = ns[b].error_count
       /\ ns[a].total_space - ns[a].used_space >= ns[b].total_space - ns[b].used_space

\* get_healthy_nodes: every listing the query may return (ties in any order)
GetHealthyNodes(ns, min_free_space_mb) ==
    LET H == {n \in DOMAIN ns : IsHealthy(ns, n, min_free_space_mb)}
    IN  {s \in [1..Cardinality(H) -> H] :
            /\ \A i, j \in DOMAIN s : i # j => s[i] # s[j]
            /\ \A i, j \in DOMAIN s : i < j => RankedBefore(ns, s[i], s[j])}

\* all_nodes' last_heartbeat = utcnow()
RefreshAll(ns) == [n \in DOMAIN ns |-> [ns[n] EXCEPT !.fresh = TRUE]]

\* rows as select_primary_node leaves them when it returns sel
AfterSelect(ns, sel) ==
    IF sel = NoNode THEN ns ELSE [ns EXCEPT ![sel].fresh = TRUE]

\* select_primary_node(file_size): the pairs <<selected node, rows afterwards>>
SelectPrimaryNode(ns, file_size) ==
    LET first == GetHealthyNodes(ns, MinSpaceMb(file_size))
        again == GetHealthyNodes(RefreshAll(ns), MinSpaceMb(file_size))
    IN  IF \E n \in DOMAIN ns : IsHealthy(ns, n, MinSpaceMb(file_size))
        THEN {<<s[1], AfterSelect(ns, s[1])>> : s \in first}
        ELSE IF \E n \in DOMAIN ns : IsHealthy(RefreshAll(ns), n, MinSpaceMb(file_size))
        THEN {<<s[1], AfterSelect(RefreshAll(ns), s[1])>> : s \in again}
        ELSE {<<NoNode, RefreshAll(ns)>>}

\* replica_candidates = [node for node in healthy_nodes if node != primary]
RECURSIVE Without(_, _)
Without(s, x) ==
    IF s = <<>> THEN <<>>
    ELSE IF Head(s) = x THEN Without(Tail(s), x)
    ELSE <<Head(s)>> \o Without(Tail(s), x)

Min2(a, b) == IF a < b THEN a ELSE b

\* lst[:count]: the first count items, and for a negative count all but the
\* last -count items
SliceTo(s, count) ==
    IF count >= 0 THEN SubSeq(s, 1, Min2(count, Len(s)))
    ELSE IF Len(s) + count > 0 THEN SubSeq(s, 1, Len(s) + count)
    ELSE <<>>

\* select_replica_nodes(primary_node, count, file_size): the possible results
SelectReplicaNodes(ns, primary, count, file_size) ==
    {SliceTo(Without(s, primary), count) :
        s \in GetHealthyNodes(ns, MinSpaceMb(file_size))}

\* ------------------------------------------------------------------------
\* HealthCheckMonitor.check_all_nodes
\* ------------------------------------------------------------------------
\* if node.error_count >= 5
OfflineThreshold == 5

\* the row of a node whose check_node result is healthy
HcHealthy(row) ==
    [row EXCEPT !.is_online = TRUE,
                !.fresh = TRUE,
                !.error_count = IF @ > 0 THEN @ - 1 ELSE @]

\* the row of a node whose check_node result is not healthy
HcFailed_OfflineAtOnce(row) ==
    [row EXCEPT !.error_count = @ + 1, !.is_online = FALSE]
HcFailed(row) ==
    [row EXCEPT !.error_count = @ + 1,
                !.is_online = IF row.error_count + 1 >= OfflineThreshold
                              THEN FALSE ELSE @]

\* the rows after the loop over all nodes, healthy[n] being check_node's verdict
HcSweep(ns, healthy) ==
    [n \in DOMAIN ns |-> IF healthy[n] THEN HcHealthy(ns[n]) ELSE HcFailed(ns[n])]

\* ------------------------------------------------------------------------
\* ReplicationManager: node_health and the selections read from it
\* ------------------------------------------------------------------------
\* the keys of node_urls, in the order app.py gives them
RmOrder == <<"node1", "node2", "node3">>
RmNodes == {RmOrder[i] : i \in DOMAIN RmOrder}

\* self.replica_count
replica_count == 2

\* node_health as __init__ builds it
HealthUnknown == [status |-> "unknown", file_count |-> 0, used_space |-> 0]

\* node_health[node_id] after _check_node_health, given the client's
\* health_check() response; a status of "raised" stands for a raised exception
CheckNodeHealth(entry, response) ==
    IF response.status = "online"
    THEN [status |-> "online", file_count |-> response.file_count,
          used_space |-> response.used_space]
    ELSE [entry EXCEPT !.status = "offline"]

\* the value _check_node_health returns: True for an answer with status online
CheckReturns_Always(response) == TRUE
CheckReturns(response) == response.status = "online"

\* the node ids of seq whose status is online, in order
RECURSIVE OnlineIn(_, _)
OnlineIn(nh, seq) ==
    IF seq = <<>> THEN <<>>
    ELSE IF nh[Head(seq)].status = "online"
         THEN <<Head(seq)>> \o OnlineIn(nh, Tail(seq))
         ELSE OnlineIn(nh, Tail(seq))

\* get_online_nodes(): node ids with status online, in dict order
GetOnlineNodes(nh) == OnlineIn(nh, RmOrder)

\* select_replica_nodes(exclude_node)
RmSelectReplicaNodes(nh, exclude_node) ==
    SliceTo(Without(GetOnlineNodes(nh), exclude_node), replica_count)

\* min(online_nodes, key=file_count): the first of the least, NoNode standing
\* for the raised "No online storage nodes available"
RmSelectPrimaryNode(nh) ==
    LET on == GetOnlineNodes(nh)
    IN  IF on = <<>> THEN NoNode
        ELSE on[CHOOSE i \in DOMAIN on :
                    /\ \A j \in DOMAIN on : nh[on[i]].file_count <= nh[on[j]].file_count
                    /\ \A j \in 1..(i - 1) : nh[on[j]].file_count > nh[on[i]].file_count]

\* ------------------------------------------------------------------------
\* HealthCheckMonitor.trigger_failover
\* ------------------------------------------------------------------------
\* the first replica id whose storage_nodes row exists and is online and whose
\* path holds the file; NoNode when the loop finds none
RECURSIVE SourceNode(_, _, _)
SourceNode(ns, replica_nodes, present) ==
    IF replica_nodes = <<>> THEN NoNode
    ELSE IF /\ Head(replica_nodes) \in DOMAIN ns
            /\ ns[Head(replica_nodes)].is_online
            /\ Head(replica_nodes) \in present
         THEN Head(replica_nodes)
         ELSE SourceNode(ns, Tail(replica_nodes), present)

\* replica_nodes = [n for n in replica_nodes if n != failed_node_id]
ReplicasAfterFailover(replica_nodes, failed_node_id) ==
    Without(replica_nodes, failed_node_id)

\* ------------------------------------------------------------------------
\* ReplicationManager.replicate_file
\* ------------------------------------------------------------------------
\* the text of files.replica_nodes: the list that was written and the way it
\* was written, json.dumps(list) or ','.join(list)
JsonDumps(list) == [fmt |-> "json", list |-> list]
CommaJoin(list) == [fmt |-> "csv", list |-> list]

\* json.loads(text) succeeds on what json.dumps wrote; a ','.join of node ids
\* ('' for no id) is not JSON and makes it raise
JsonLoadsRaises(text) == text.fmt # "json"

\* no files row
NoRec == [exists |-> FALSE, primary_node |-> NoNode, replica_nodes |-> JsonDumps(<<>>)]

\* d[k] = v on a dict kept as its items in insertion order
DictSet(d, k, v) ==
    IF \E i \in DOMAIN d : d[i][1] = k
    THEN [i \in DOMAIN d |-> IF d[i][1] = k THEN <<k, v>> ELSE d[i]]
    ELSE Append(d, <<k, v>>)

\* [node for node, success in results.items() if success]
RECURSIVE SuccessfulReplicas(_)
SuccessfulReplicas(d) ==
    IF d = <<>> THEN <<>>
    ELSE IF Head(d)[2] THEN <<Head(d)[1]>> \o SuccessfulReplicas(Tail(d))
    ELSE SuccessfulReplicas(Tail(d))

\* what one pass of the loop may meet: download_file raises, download_file
\* returns no bytes, upload_file answers without status success, or with it
PassOutcomes == {"download_raises", "download_empty", "upload_error", "upload_success"}

\* the value a pass stores under results[replica_node_id]
PassSuccess(outcome) == outcome = "upload_success"

\* ------------------------------------------------------------------------
\* RedisClient on Redis or on its InMemoryCache fallback
\* ------------------------------------------------------------------------
\* acquire_lock: SET key value NX EX ttl. InMemoryCache.set takes no nx
\* argument, the TypeError is caught and acquire_lock returns False.
AcquireLockOk(lock) == ~usingFallback /\ lock = "free"

\* the key once the ttl given to SET ... EX ttl has run out
KeyAfterTtl_Kept(lock) == lock
KeyAfterTtl(lock) == "free"

\* release_lock: DEL key, whoever set it
LockAfterRelease_OnSuccessOnly(lock, out) == IF out = "ok" THEN "free" ELSE lock
LockAfterRelease(lock, out) == "free"

\* ------------------------------------------------------------------------
\* The RedisClient methods over each store
\* ------------------------------------------------------------------------
KeyNames == {"lock", "count"}

\* a key: absent, live, or (InMemoryCache only) still in data with the time
\* in expiry already past; ttl says whether the key has an expiry time
NoKey == [st |-> "absent", val |-> 0, ttl |-> FALSE]
LiveKey(v, ttl) == [st |-> "live", val |-> v, ttl |-> ttl]
NoCall == [op |-> "none", redis |-> PyNone, memory |-> PyNone]

\* acquire_lock: SET lock:{key} value NX EX ttl on Redis; InMemoryCache.set
\* has no nx parameter, the TypeError is caught and False returned
AcquireLockOn(store, key) ==
    IF store = "redis" /\ key.st = "absent"
    THEN [key |-> LiveKey(1, TRUE), ret |-> PyBool(TRUE)]
    ELSE [key |-> key, ret |-> PyBool(FALSE)]

\* release_lock: delete(lock:{key}) on either store, True
ReleaseLockOn(store, key) == [key |-> NoKey, ret |-> PyBool(TRUE)]

\* is_locked: EXISTS on Redis; InMemoryCache has no exists method, the
\* AttributeError is caught and False returned
IsLockedOn(store, key) ==
    [key |-> key, ret |-> PyBool(store = "redis" /\ key.st = "live")]

\* set_download_counter: setex(count:{file_id}, ttl, limit) on either store
SetDownloadCounterOn(store, key, limit) ==
    [key |-> LiveKey(limit, TRUE), ret |-> PyBool(TRUE)]

\* decrement_counter: result >= 0 for the value decr returns. Redis DECR
\* takes an absent key as 0 and keeps the TTL of a live one;
\* InMemoryCache.decr looks the key up in data without a look at expiry and
\* returns None when it is not there, None >= 0 raises and False is returned
DecrementCounterOn(store, key) ==
    IF store = "redis"
    THEN LET new == IF key.st = "live" THEN [key EXCEPT !.val = @ - 1]
                    ELSE LiveKey(0 - 1, FALSE)
         IN  [key |-> new, ret |-> PyBool(new.val >= 0)]
    ELSE IF key.st = "absent" THEN [key |-> key, ret |-> PyBool(FALSE)]
    ELSE [key |-> [key EXCEPT !.val = @ - 1], ret |-> PyBool(key.val - 1 >= 0)]

\* the expiry time of a key goes by: Redis drops the key, InMemoryCache keeps
\* it in data until a get finds it expired
AfterTtl(store, key) ==
    IF key.st = "live" /\ key.ttl
    THEN IF store = "redis" THEN NoKey ELSE [key EXCEPT !.st = "expired"]
    ELSE key

\* the same call made on a RedisClient of each kind
BothStores(name, onRedis, onMemory) ==
    /\ rkv' = [rkv EXCEPT ![name] = onRedis.key]
    /\ mkv' = [mkv EXCEPT ![name] = onMemory.key]
    /\ UNCHANGED <<dlmVars, storeVars, upVars, finVars, dlVars, selVars, hcVars, rmVars,
                   rfVars, hpVars, lkVars>>

FbAcquireLock ==
    LET onRedis == AcquireLockOn("redis", rkv["lock"])
        onMemory == AcquireLockOn("memory", mkv["lock"])
    IN  /\ fbLast' = [op |-> "acquire_lock", redis |-> onRedis.ret, memory |-> onMemory.ret]
        /\ BothStores("lock", onRedis, onMemory)

FbReleaseLock ==
    LET onRedis == ReleaseLockOn("redis", rkv["lock"])
        onMemory == ReleaseLockOn("memory", mkv["lock"])
    IN  /\ fbLast' = [op |-> "release_lock", redis |-> onRedis.ret, memory |-> onMemory.ret]
        /\ BothStores("lock", onRedis, onMemory)

FbIsLocked ==
    LET onRedis == IsLockedOn("redis", rkv["lock"])
        onMemory == IsLockedOn("memory", mkv["lock"])
    IN  /\ fbLast' = [op |-> "is_locked", redis |-> onRedis.ret, memory |-> onMemory.ret]
        /\ BothStores("lock", onRedis, onMemory)

FbSetDownloadCounter(limit) ==
    LET onRedis == SetDownloadCounterOn("redis", rkv["count"], limit)
        onMemory == SetDownloadCounterOn("memory", mkv["count"], limit)
    IN  /\ fbLast' = [op |-> "set_download_counter", redis |-> onRedis.ret, memory |-> onMemory.ret]
        /\ BothStores("count", onRedis, onMemory)

FbDecrementCounter ==
    /\ rkv["count"].val > 0 - MaxDownloads
    /\ mkv["count"].val > 0 - MaxDownloads
    /\ LET onRedis == DecrementCounterOn("redis", rkv["count"])
           onMemory == DecrementCounterOn("memory", mkv["count"])
       IN  /\ fbLast' = [op |-> "decrement_counter", redis |-> onRedis.ret,
                         memory |-> onMemory.ret]
           /\ BothStores("count", onRedis, onMemory)

FbTtlPasses(name) ==
    /\ (rkv[name].st = "live" /\ rkv[name].ttl) \/ (mkv[name].st = "live" /\ mkv[name].ttl)
    /\ rkv' = [rkv EXCEPT ![name] = AfterTtl("redis", @)]
    /\ mkv' = [mkv EXCEPT ![name] = AfterTtl("memory", @)]
    /\ UNCHANGED <<dlmVars, storeVars, upVars, finVars, dlVars, selVars, hcVars, rmVars,
                   rfVars, hpVars, lkVars, fbLast>>

\* ------------------------------------------------------------------------
\* chunk_upload
\* ------------------------------------------------------------------------
NoUReq == [part |-> 0, data |-> <<>>, checksum |-> NoChecksum]
PartNumbers == 0..(MaxParts + 1)

UReturn(u, resp) ==
    /\ upc' = [upc EXCEPT ![u] = "idle"]
    /\ ureq' = [ureq EXCEPT ![u] = NoUReq]
    /\ umf' = [umf EXCEPT ![u] = NoManifest]
    /\ uresp' = [uresp EXCEPT ![u] = resp]

\* the checksum query parameter: absent, or the SHA-256 of a <<1>> chunk
PartChecksums == {NoChecksum, Checksum(<<1>>)}

\* part_number < 1 or part_number > parts_expected
PartOutOfRange_UpperOnly(part, m) == part > m.parts_expected
PartOutOfRange(part, m) == part < 1 \/ part > m.parts_expected

\* chunk_upload(part_number=part, checksum=cs) with body data: read the
\* manifest and validate the request
UpStart(u, part, data, cs) ==
    /\ upc[u] = "idle"
    /\ ucalls < MaxUploads
    /\ ucalls' = ucalls + 1
    /\ IF ~manifest.exists THEN UReturn(u, "not_found") /\ UNCHANGED quiet
        ELSE IF manifest.status # "in_progress"
            THEN UReturn(u, "not_active") /\ UNCHANGED quiet
        ELSE IF PartOutOfRange(part, manifest)
            THEN UReturn(u, "invalid_part") /\ UNCHANGED quiet
        ELSE IF data = <<>> THEN UReturn(u, "empty_chunk") /\ UNCHANGED quiet
        ELSE /\ upc' = [upc EXCEPT ![u] = "write"]
             /\ ureq' = [ureq EXCEPT ![u] = [part |-> part, data |-> data, checksum |-> cs]]
             /\ umf' = [umf EXCEPT ![u] = manifest]
             /\ uresp' = [uresp EXCEPT ![u] = "pending"]
             /\ quiet' = [f \in DOMAIN quiet |-> FALSE]
    /\ UNCHANGED <<dlmVars, auxVars, dlVars, usingFallback, manifest, chunkFiles, latest, upLock, fcalls,
                   nodes, disk, dbFiles, counters, metaCache, fpc, freq, fmf, fprim, fidx,
                   freps, fout, flog>>

\* write the chunk to temp_dir/part_{n}
UpWrite(u) ==
    /\ upc[u] = "write"
    /\ chunkFiles' = [chunkFiles EXCEPT ![ureq[u].part] = <<ureq[u].data>>]
    /\ upc' = [upc EXCEPT ![u] = IF ureq[u].checksum # NoChecksum THEN "verify" ELSE "save"]
    /\ UNCHANGED <<dlmVars, auxVars, dlVars, usingFallback, manifest, latest, upLock, fcalls, ucalls, nodes, disk,
                   dbFiles, counters, metaCache, ureq, umf, uresp, finVars>>

\* calc != checksum, for the bytes of the part file
PartChecksumFails_Never(bytes, checksum) == FALSE
PartChecksumFails(bytes, checksum) == Checksum(bytes) # checksum

\* generate_checksum(part_path) against the supplied checksum; on mismatch
\* os.remove(part_path) and 400. When the file is gone generate_checksum
\* returns None, os.remove raises, the exception is passed over and the part
\* is recorded.
UpVerify(u) ==
    /\ upc[u] = "verify"
    /\ LET file == chunkFiles[ureq[u].part] IN
        IF file # <<>> /\ PartChecksumFails(file[1], ureq[u].checksum)
        THEN /\ chunkFiles' = [chunkFiles EXCEPT ![ureq[u].part] = <<>>]
             /\ UReturn(u, "checksum_mismatch")
        ELSE /\ upc' = [upc EXCEPT ![u] = "save"]
             /\ UNCHANGED <<chunkFiles, ureq, umf, uresp>>
    /\ UNCHANGED <<dlmVars, auxVars, dlVars, usingFallback, manifest, latest, upLock, fcalls, ucalls, nodes, disk,
                   dbFiles, counters, metaCache, finVars>>

\* the manifest chunk_upload writes back: the one it read, with this part
UpdatedManifest(m, req) ==
    LET m2 == PutPart(m, req.part, [size |-> Len(req.data), checksum |-> req.checksum])
    IN  [m2 EXCEPT !.received = Len(m2.order)]

\* record the part in the manifest read at the start and cache it
UpSave(u) ==
    /\ upc[u] = "save"
    /\ manifest' = UpdatedManifest(umf[u], ureq[u])
    /\ latest' = [latest EXCEPT ![ureq[u].part] = ureq[u].data]
    /\ UReturn(u, "ok")
    /\ UNCHANGED <<dlmVars, auxVars, dlVars, usingFallback, chunkFiles, upLock, fcalls, ucalls, nodes, disk,
                   dbFiles, counters, metaCache, finVars>>

\* ------------------------------------------------------------------------
\* chunk_complete
\* ------------------------------------------------------------------------
NoFReq == [id |-> 0, file_checksum |-> NoChecksum, download_limit |-> 0]
NoLog == [out |-> "none", file_checksum |-> NoChecksum]

\* the file_checksum a client may send: none, or the SHA-256 of the object
\* whose parts are all <<1>>
FileChecksums == {NoChecksum, Checksum([i \in 1..MaxParts |-> 1])}

\* leave the try block with response out; the finally clause runs next
FLeave(f, out) ==
    /\ fpc' = [fpc EXCEPT ![f] = "release"]
    /\ fout' = [fout EXCEPT ![f] = out]

FileOf(f) == freq[f].id

\* chunk_complete(file_checksum=cs, download_limit=limit):
\* acquire_lock("upload:{upload_id}:lock", ttl=60)
FStart(f, cs, limit) ==
    /\ fpc[f] = "idle"
    /\ fcalls < MaxFinalizeCalls
    /\ fcalls' = fcalls + 1
    /\ LET id == fcalls + 1
            entry == [out |-> "pending", file_checksum |-> cs]
        IN  IF AcquireLockOk(upLock)
            THEN /\ upLock' = f
                 /\ fpc' = [fpc EXCEPT ![f] = "manifest"]
                 /\ freq' = [freq EXCEPT ![f] = [id |-> id, file_checksum |-> cs,
                                                 download_limit |-> limit]]
                 /\ fout' = [fout EXCEPT ![f] = "pending"]
                 /\ flog' = [flog EXCEPT ![id] = entry]
            ELSE /\ flog' = [flog EXCEPT ![id] = [NoLog EXCEPT !.out = "locked"]]
                 /\ fout' = [fout EXCEPT ![f] = "locked"]
                 /\ UNCHANGED <<upLock, fpc, freq>>
    /\ UNCHANGED <<dlmVars, auxVars, dlVars, usingFallback, manifest, chunkFiles, latest, ucalls, nodes,
                   disk, dbFiles, counters, metaCache, upVars, fmf, fprim, fidx, freps,
                   quiet>>

\* received != parts_expected
PartsIncomplete_Never(m) == FALSE
PartsIncomplete(m) == m.received # m.parts_expected

\* get_cache(upload:{upload_id}) and the completeness check
FManifest(f) ==
    /\ fpc[f] = "manifest"
    /\ IF ~manifest.exists THEN FLeave(f, "not_found") /\ UNCHANGED <<fmf, quiet>>
       ELSE IF PartsIncomplete(manifest) THEN FLeave(f, "incomplete") /\ UNCHANGED <<fmf, quiet>>
       ELSE /\ fmf' = [fmf EXCEPT ![f] = manifest]
            /\ quiet' = [quiet EXCEPT ![f] = \A u \in DOMAIN upc : upc[u] = "idle"]
            /\ fpc' = [fpc EXCEPT ![f] = "select"]
            /\ UNCHANGED fout
    /\ UNCHANGED <<dlmVars, auxVars, dlVars, storeVars, upVars, freq, fprim, fidx, freps, flog>>

\* node_selector.select_primary_node(total_size)
FSelect(f) ==
    /\ fpc[f] = "select"
    /\ \E pair \in SelectPrimaryNode(nodes, fmf[f].total_size) :
        /\ nodes' = pair[2]
        /\ IF pair[1] = NoNode
           THEN FLeave(f, "no_nodes") /\ UNCHANGED fprim
           ELSE /\ fprim' = [fprim EXCEPT ![f] = pair[1]]
                /\ fpc' = [fpc EXCEPT ![f] = "open"]
                /\ UNCHANGED fout
    /\ UNCHANGED <<dlmVars, auxVars, dlVars, usingFallback, manifest, chunkFiles, latest, upLock, fcalls, ucalls,
                   disk, dbFiles, counters, metaCache, upVars, freq, fmf, fidx, freps,
                   quiet, flog>>

\* open(final_path, 'wb')
FOpen(f) ==
    /\ fpc[f] = "open"
    /\ disk' = [disk EXCEPT ![fprim[f]][FileOf(f)] = << <<>> >>]
    /\ fidx' = [fidx EXCEPT ![f] = 1]
    /\ fpc' = [fpc EXCEPT ![f] = "stitch"]
    /\ UNCHANGED <<dlmVars, auxVars, dlVars, usingFallback, manifest, chunkFiles, latest, upLock, fcalls, ucalls,
                   nodes, dbFiles, counters, metaCache, upVars, freq, fmf, fprim, freps,
                   fout, quiet, flog>>

\* the part copied by iteration k of the stitch loop: range(1, parts_expected + 1)
StitchPart_InsertionOrder(m, k) == m.order[k]
StitchPart(m, k) == k

\* one iteration of the stitch loop
FStitch(f) ==
    /\ fpc[f] = "stitch"
    /\ LET part == StitchPart(fmf[f], fidx[f]) IN
        IF ~HasPart(fmf[f], part)
        THEN FLeave(f, "missing_part") /\ UNCHANGED <<disk, fidx>>
        ELSE IF chunkFiles[part] = <<>>
        THEN FLeave(f, "error") /\ UNCHANGED <<disk, fidx>>
        ELSE /\ disk' = [disk EXCEPT ![fprim[f]][FileOf(f)] = <<@[1] \o chunkFiles[part][1]>>]
             /\ fidx' = [fidx EXCEPT ![f] = @ + 1]
             /\ fpc' = [fpc EXCEPT ![f] =
                          IF fidx[f] = fmf[f].parts_expected THEN "verify" ELSE "stitch"]
             /\ UNCHANGED fout
    /\ UNCHANGED <<dlmVars, auxVars, dlVars, usingFallback, manifest, chunkFiles, latest, upLock, fcalls, ucalls,
                   nodes, dbFiles, counters, metaCache, upVars, freq, fmf, fprim, freps,
                   quiet, flog>>

\* file_checksum given and generate_checksum(final_path) != file_checksum
ChecksumFails_Never(bytes, file_checksum) == FALSE
ChecksumFails(bytes, file_checksum) ==
    file_checksum # NoChecksum /\ Checksum(bytes) # file_checksum

\* os.remove(final_path) on a mismatch
RemoveOnMismatch_Keep(file) == file
RemoveOnMismatch(file) == <<>>

\* verify the final checksum
FVerify(f) ==
    /\ fpc[f] = "verify"
    /\ IF ChecksumFails(disk[fprim[f]][FileOf(f)][1], freq[f].file_checksum)
       THEN /\ disk' = [disk EXCEPT ![fprim[f]][FileOf(f)] = RemoveOnMismatch(@)]
            /\ FLeave(f, "checksum")
       ELSE /\ fpc' = [fpc EXCEPT ![f] = "replicate"]
            /\ UNCHANGED <<disk, fout>>
    /\ UNCHANGED <<dlmVars, auxVars, dlVars, usingFallback, manifest, chunkFiles, latest, upLock, fcalls, ucalls,
                   nodes, dbFiles, counters, metaCache, upVars, freq, fmf, fprim, fidx,
                   freps, quiet, flog>>

\* select_replica_nodes and copy the object to each replica's path
FReplicate(f) ==
    /\ fpc[f] = "replicate"
    /\ \E reps \in SelectReplicaNodes(nodes, fprim[f], REPLICATION_FACTOR - 1,
                                      fmf[f].total_size) :
        /\ freps' = [freps EXCEPT ![f] = reps]
        /\ disk' = [n \in Nodes |->
                      IF n \in SeqRange(reps)
                      THEN [disk[n] EXCEPT ![FileOf(f)] = disk[fprim[f]][FileOf(f)]]
                      ELSE disk[n]]
    /\ fpc' = [fpc EXCEPT ![f] = "commit"]
    /\ UNCHANGED <<dlmVars, auxVars, dlVars, usingFallback, manifest, chunkFiles, latest, upLock, fcalls, ucalls,
                   nodes, dbFiles, counters, metaCache, upVars, freq, fmf, fprim, fidx,
                   fout, quiet, flog>>

\* the File row and the node statistics, committed together
FCommit(f) ==
    /\ fpc[f] = "commit"
    /\ dbFiles' = [dbFiles EXCEPT ![FileOf(f)] =
                     [exists |-> TRUE, file_size |-> fmf[f].total_size,
                      primary_node |-> fprim[f], replica_nodes |-> freps[f],
                      download_limit |-> freq[f].download_limit,
                      downloads_left |-> freq[f].download_limit,
                      checksum |-> Checksum(disk[fprim[f]][FileOf(f)][1])]]
    /\ nodes' = [n \in Nodes |->
                   IF n = fprim[f] \/ n \in SeqRange(freps[f])
                   THEN [nodes[n] EXCEPT !.used_space = @ + fmf[f].total_size,
                                         !.file_count = @ + 1]
                   ELSE nodes[n]]
    /\ fpc' = [fpc EXCEPT ![f] = "publish"]
    /\ UNCHANGED <<dlmVars, auxVars, dlVars, usingFallback, manifest, chunkFiles, latest, upLock, fcalls, ucalls,
                   disk, counters, metaCache, upVars, freq, fmf, fprim, fidx, freps,
                   fout, quiet, flog>>

\* set_download_counter(file_id, limit, ttl): SETEX count:{file_id}
SetDownloadCounter(limit) == [present |-> TRUE, val |-> limit]

\* set_download_counter and the file_metadata cache entry
FPublish(f) ==
    /\ fpc[f] = "publish"
    /\ counters' = [counters EXCEPT ![FileOf(f)] = SetDownloadCounter(freq[f].download_limit)]
    /\ metaCache' = [metaCache EXCEPT ![FileOf(f)] = TRUE]
    /\ fpc' = [fpc EXCEPT ![f] = "cleanup"]
    /\ UNCHANGED <<dlmVars, auxVars, dlVars, usingFallback, manifest, chunkFiles, latest, upLock, fcalls, ucalls,
                   nodes, disk, dbFiles, upVars, freq, fmf, fprim, fidx, freps, fout,
                   quiet, flog>>

\* shutil.rmtree(temp_dir) and delete_cache(upload:{upload_id})
FCleanup(f) ==
    /\ fpc[f] = "cleanup"
    /\ chunkFiles' = [p \in DOMAIN chunkFiles |-> <<>>]
    /\ manifest' = NoManifest
    /\ FLeave(f, "ok")
    /\ UNCHANGED <<dlmVars, auxVars, dlVars, usingFallback, latest, upLock, fcalls, ucalls, nodes, disk, dbFiles,
                   counters, metaCache, upVars, freq, fmf, fprim, fidx, freps, quiet, flog>>

\* finally: release_lock, then the response goes out
FRelease(f) ==
    /\ fpc[f] = "release"
    /\ upLock' = LockAfterRelease(upLock, fout[f])
    /\ flog' = [flog EXCEPT ![FileOf(f)].out = fout[f]]
    /\ fpc' = [fpc EXCEPT ![f] = "idle"]
    /\ freq' = [freq EXCEPT ![f] = NoFReq]
    /\ fmf' = [fmf EXCEPT ![f] = NoManifest]
    /\ fprim' = [fprim EXCEPT ![f] = NoNode]
    /\ fidx' = [fidx EXCEPT ![f] = 0]
    /\ freps' = [freps EXCEPT ![f] = <<>>]
    /\ quiet' = [quiet EXCEPT ![f] = FALSE]
    /\ UNCHANGED <<dlmVars, auxVars, dlVars, usingFallback, manifest, chunkFiles, latest, fcalls, ucalls, nodes,
                   disk, dbFiles, counters, metaCache, upVars, fout>>

\* Redis drops lock:upload:{upload_id}:lock when its 60 s TTL runs out
UploadLockExpire ==
    /\ upLock # "free"
    /\ upLock' = KeyAfterTtl(upLock)
    /\ UNCHANGED <<dlmVars, auxVars, dlVars, usingFallback, manifest, chunkFiles, latest, fcalls, ucalls, nodes,
                   disk, dbFiles, counters, metaCache, upVars, finVars>>

\* ------------------------------------------------------------------------
\* download_file
\* ------------------------------------------------------------------------
Downloaders == {"d1", "d2"}

\* Redis DECR: a missing key counts as 0
Decr(counter) ==
    [present |-> TRUE, val |-> (IF counter.present THEN counter.val ELSE 0) - 1]

\* RedisClient.decrement_counter: whether the decremented value is still >= 0
DecrementCounter(counter) == PyBool(Decr(counter).val >= 0)

\* 'downloads_left is None or downloads_left < 0' on the returned value
LimitReached(downloads_left) == downloads_left = PyNone \/ downloads_left[2] < 0

\* the value an Integer column stores for a Python int or bool
AsInteger(v) == v[2]

\* the file is on the primary node or on one of the replica nodes
OnSomeNode(row, k) ==
    \/ row.primary_node \in Nodes /\ disk[row.primary_node][k] # <<>>
    \/ \E i \in DOMAIN row.replica_nodes : disk[row.replica_nodes[i]][k] # <<>>

DlLeave(d, out) ==
    /\ dlout' = [dlout EXCEPT ![d] = out]
    /\ dlpc' = [dlpc EXCEPT ![d] = "return"]

\* download_file(file_id=k), by a client that got k from chunk_complete's
\* response: metadata from the cache or, on a miss, the checks on the File row
DlStart(d, k) ==
    /\ dlpc[d] = "idle"
    /\ dcalls < MaxDownloads
    /\ flog[k].out = "ok"
    /\ dcalls' = dcalls + 1
    /\ dlfile' = [dlfile EXCEPT ![d] = k]
    /\ dlret' = [dlret EXCEPT ![d] = PyNone]
    /\ IF ~dbFiles[k].exists THEN DlLeave(d, "not_found")
       ELSE IF ~metaCache[k] /\ dbFiles[k].downloads_left <= 0 THEN DlLeave(d, "limit")
       ELSE /\ dlpc' = [dlpc EXCEPT ![d] = "lock"]
            /\ dlout' = [dlout EXCEPT ![d] = "pending"]
    /\ UNCHANGED <<dlmVars, auxVars, storeVars, upVars, finVars, dlLock, served, consumed, dlog>>

\* acquire_lock(download_lock:{file_id}, ttl=10)
DlLock(d) ==
    /\ dlpc[d] = "lock"
    /\ IF AcquireLockOk(dlLock[dlfile[d]])
       THEN /\ dlLock' = [dlLock EXCEPT ![dlfile[d]] = d]
            /\ dlpc' = [dlpc EXCEPT ![d] = "decr"]
            /\ UNCHANGED dlout
       ELSE DlLeave(d, "busy") /\ UNCHANGED dlLock
    /\ UNCHANGED <<dlmVars, auxVars, storeVars, upVars, finVars, dcalls, dlfile, dlret, served,
                   consumed, dlog>>

\* downloads_left = decrement_counter(file_id), then the limit check
DlDecr(d) ==
    /\ dlpc[d] = "decr"
    /\ LET k == dlfile[d]
           ret == DecrementCounter(counters[k])
       IN  /\ counters' = [counters EXCEPT ![k] = Decr(@)]
           /\ dlret' = [dlret EXCEPT ![d] = ret]
           /\ consumed' = [consumed EXCEPT ![k] = Append(@, ret)]
           /\ IF LimitReached(ret)
              THEN /\ dlLock' = [dlLock EXCEPT ![k] = "free"]
                   /\ dlout' = [dlout EXCEPT ![d] = "limit"]
                   /\ dlpc' = [dlpc EXCEPT ![d] = "finally"]
              ELSE /\ dlpc' = [dlpc EXCEPT ![d] = "update"]
                   /\ UNCHANGED <<dlLock, dlout>>
    /\ UNCHANGED <<dlmVars, auxVars, usingFallback, manifest, chunkFiles, latest, upLock, fcalls, ucalls,
                   nodes, disk, dbFiles, metaCache, upVars, finVars, dcalls, dlfile, served, dlog>>

\* file_record.downloads_left = downloads_left; commit
DlUpdate(d) ==
    /\ dlpc[d] = "update"
    /\ dbFiles' = [dbFiles EXCEPT ![dlfile[d]].downloads_left = AsInteger(dlret[d])]
    /\ dlpc' = [dlpc EXCEPT ![d] = "serve"]
    /\ UNCHANGED <<dlmVars, auxVars, usingFallback, manifest, chunkFiles, latest, upLock, fcalls, ucalls,
                   nodes, disk, counters, metaCache, upVars, finVars, dlLock, dcalls, dlfile,
                   dlret, dlout, served, consumed, dlog>>

\* release the lock and send the file from the primary node or a replica;
\* 500 when no node has it
DlServe(d) ==
    /\ dlpc[d] = "serve"
    /\ LET k == dlfile[d] IN
        /\ dlLock' = [dlLock EXCEPT ![k] = "free"]
        /\ IF OnSomeNode(dbFiles[k], k)
           THEN /\ served' = [served EXCEPT ![k] = @ + 1]
                /\ dlout' = [dlout EXCEPT ![d] = "served"]
           ELSE /\ dlout' = [dlout EXCEPT ![d] = "not_on_nodes"]
                /\ UNCHANGED served
    /\ dlpc' = [dlpc EXCEPT ![d] = "finally"]
    /\ UNCHANGED <<dlmVars, auxVars, storeVars, upVars, finVars, dcalls, dlfile, dlret, consumed, dlog>>

\* finally: release_lock if is_locked
DlFinally(d) ==
    /\ dlpc[d] = "finally"
    /\ dlLock' = [dlLock EXCEPT ![dlfile[d]] = "free"]
    /\ dlpc' = [dlpc EXCEPT ![d] = "return"]
    /\ UNCHANGED <<dlmVars, auxVars, storeVars, upVars, finVars, dcalls, dlfile, dlret, dlout, served,
                   consumed, dlog>>

\* the response leaves the gateway
DlReturn(d) ==
    /\ dlpc[d] = "return"
    /\ dlog' = [dlog EXCEPT ![dlfile[d]] =
                  Append(@, [out |-> dlout[d],
                             downloads_left |-> dbFiles[dlfile[d]].downloads_left])]
    /\ dlpc' = [dlpc EXCEPT ![d] = "idle"]
    /\ UNCHANGED <<dlmVars, auxVars, storeVars, upVars, finVars, dlLock, dcalls, dlfile, dlret, dlout,
                   served, consumed>>

\* Redis no longer holds file_metadata:{file_id} (evicted or flushed)
MetaCacheLost(k) ==
    /\ metaCache[k]
    /\ metaCache' = [metaCache EXCEPT ![k] = FALSE]
    /\ UNCHANGED <<dlmVars, auxVars, usingFallback, manifest, chunkFiles, latest, upLock, fcalls, ucalls,
                   nodes, disk, dbFiles, counters, upVars, finVars, dlVars>>

\* ------------------------------------------------------------------------
\* RedisClient.acquire_lock called by clients that never release
\* ------------------------------------------------------------------------
\* acquire_lock("upload:{upload_id}:lock", ttl=60): True when SET NX EX stored
\* the key, False when the key is held or the command raised
AcquireUploadLock(f, ok) ==
    /\ LET result == ok /\ AcquireLockOk(upLock)
       IN  /\ upLock' = IF result THEN f ELSE upLock
           /\ lkTaken' = IF result THEN lkTaken \cup {f} ELSE lkTaken
    /\ UNCHANGED <<dlmVars, selVars, hcVars, rmVars, rfVars, hpVars, fbVars, dlVars, upVars, finVars,
                   usingFallback, manifest, chunkFiles, latest, fcalls, ucalls, nodes, disk,
                   dbFiles, counters, metaCache>>

\* acquire_lock("download_lock:{file_id}", ttl=10)
AcquireDownloadLock(d, k, ok) ==
    /\ dlLock' = [dlLock EXCEPT ![k] = IF ok /\ AcquireLockOk(@) THEN d ELSE @]
    /\ UNCHANGED <<dlmVars, auxVars, storeVars, upVars, finVars, dcalls, dlpc, dlfile, dlret,
                   dlout, served, consumed, dlog>>

\* Redis drops lock:download_lock:{file_id} when its 10 s TTL runs out
DownloadLockExpire(k) ==
    /\ dlLock[k] # "free"
    /\ dlLock' = [dlLock EXCEPT ![k] = KeyAfterTtl(@)]
    /\ UNCHANGED <<dlmVars, auxVars, storeVars, upVars, finVars, dcalls, dlpc, dlfile, dlret,
                   dlout, served, consumed, dlog>>

\* ------------------------------------------------------------------------
\* Initial states
\* ------------------------------------------------------------------------
NodeRow(on, fresh, errors, used) ==
    [is_online |-> on, fresh |-> fresh, error_count |-> errors,
     total_space |-> 100 * MB, used_space |-> used, file_count |-> 0]

\* both nodes healthy, node1 with more free space
TwoNodes ==
    [n \in Nodes |-> IF n = "node1" THEN NodeRow(TRUE, TRUE, 0, 0)
                     ELSE NodeRow(TRUE, TRUE, 0, 10 * MB)]

\* storage_nodes tables the gateway may start a request with
NodeConfigs ==
    { [n \in Nodes |-> NodeRow(TRUE, TRUE, 0, 0)],
      [n \in Nodes |-> NodeRow(TRUE, FALSE, 0, 0)],
      [n \in Nodes |-> NodeRow(FALSE, TRUE, 0, 0)],
      [n \in Nodes |-> IF n = "node1" THEN NodeRow(FALSE, TRUE, 0, 0)
                       ELSE NodeRow(TRUE, TRUE, 0, 0)],
      [n \in Nodes |-> IF n = "node1" THEN NodeRow(TRUE, TRUE, 0, 60 * MB)
                       ELSE NodeRow(TRUE, TRUE, 2, 10 * MB)],
      TwoNodes }

\* the chunk_size of the session
ChunkSize == 2

DlmIdle ==
    /\ dlmDecode = TRUE
    /\ dlmVal = NoToken
    /\ dlmTtl = 0
    /\ dlmNext = 0
    /\ dpc = [c \in Callers |-> "idle"]
    /\ dtok = [c \in Callers |-> NoToken]
    /\ darg = [c \in Callers |-> NoToken]
    /\ dres = [c \in Callers |-> PyNone]
    /\ dlast = [c \in Callers |-> "none"]

\* no selector call made on its own
NoSel == [op |-> "none", file_size |-> 0, primary |-> NoNode, count |-> 0,
          rows |-> <<>>, result |-> <<>>]

\* no check_all_nodes call made
NoSweep == [rows |-> <<>>, healthy |-> <<>>, committed |-> FALSE]

\* no ReplicationManager call made
NoRm == [op |-> "none", node |-> NoNode, before |-> <<>>, response |-> "none",
         result |-> <<>>]

\* no replicate_file call under way
NoRfReq == [primary_node |-> NoNode, replica_nodes |-> <<>>, db |-> "none", row |-> NoRec]

\* no handle_primary_failure call under way
NoHpReq == [failed_primary |-> NoNode, replica_nodes |-> <<>>, db |-> "none"]

\* no trigger_failover call made
NoFailover == [failed_node_id |-> NoNode, before |-> NoRec, outcome |-> "none"]

AuxIdle ==
    /\ lkTaken = {}
    /\ rkv = [k \in KeyNames |-> NoKey]
    /\ mkv = [k \in KeyNames |-> NoKey]
    /\ fbLast = NoCall
    /\ hpc = "idle"
    /\ hreq = NoHpReq
    /\ hidx = 0
    /\ hret = NoNode
    /\ hlog = <<>>
    /\ hrec = NoRec
    /\ tfLast = NoFailover
    /\ selCalls = 0
    /\ selLast = NoSel
    /\ primCount = [n \in SelNodes |-> 0]
    /\ hcSweeps = 0
    /\ hcLast = NoSweep
    /\ node_health = [n \in RmNodes |-> HealthUnknown]
    /\ rmLast = NoRm
    /\ rfpc = "idle"
    /\ rfreq = NoRfReq
    /\ rfidx = 0
    /\ results = <<>>
    /\ fileRec = NoRec
    /\ rflog = <<>>

ProcIdle ==
    /\ AuxIdle
    /\ upc = [u \in Uploaders |-> "idle"]
    /\ ureq = [u \in Uploaders |-> NoUReq]
    /\ umf = [u \in Uploaders |-> NoManifest]
    /\ uresp = [u \in Uploaders |-> "none"]
    /\ fpc = [f \in Finalizers |-> "idle"]
    /\ freq = [f \in Finalizers |-> NoFReq]
    /\ fmf = [f \in Finalizers |-> NoManifest]
    /\ fprim = [f \in Finalizers |-> NoNode]
    /\ fidx = [f \in Finalizers |-> 0]
    /\ freps = [f \in Finalizers |-> <<>>]
    /\ fout = [f \in Finalizers |-> "none"]
    /\ quiet = [f \in Finalizers |-> FALSE]
    /\ flog = [k \in FileIds |-> NoLog]
    /\ dlLock = [k \in FileIds |-> "free"]
    /\ dcalls = 0
    /\ dlpc = [d \in Downloaders |-> "idle"]
    /\ dlfile = [d \in Downloaders |-> 1]
    /\ dlret = [d \in Downloaders |-> PyNone]
    /\ dlout = [d \in Downloaders |-> "none"]
    /\ served = [k \in FileIds |-> 0]
    /\ consumed = [k \in FileIds |-> <<>>]
    /\ dlog = [k \in FileIds |-> <<>>]

StoreRest ==
    /\ upLock = "free"
    /\ fcalls = 0
    /\ ucalls = 0
    /\ disk = [n \in Nodes |-> [k \in FileIds |-> <<>>]]
    /\ dbFiles = [k \in FileIds |-> NoFile]
    /\ counters = [k \in FileIds |-> NoCounter]
    /\ metaCache = [k \in FileIds |-> FALSE]

\* no session, no file: the gateway as the lock manager's callers see it
GwIdle ==
    /\ usingFallback = FALSE
    /\ manifest = NoManifest
    /\ nodes = [n \in Nodes |-> NodeRow(TRUE, TRUE, 0, 0)]
    /\ chunkFiles = [p \in 1..MaxParts |-> <<>>]
    /\ latest = [p \in 1..MaxParts |-> <<>>]
    /\ StoreRest
    /\ ProcIdle

\* the lock manager before any call, over either kind of connection
DlmInit ==
    /\ dlmDecode \in BOOLEAN
    /\ dlmVal = NoToken
    /\ dlmTtl = 0
    /\ dlmNext = 0
    /\ dpc = [c \in Callers |-> "idle"]
    /\ dtok = [c \in Callers |-> NoToken]
    /\ darg = [c \in Callers |-> NoToken]
    /\ dres = [c \in Callers |-> PyNone]
    /\ dlast = [c \in Callers |-> "none"]
    /\ GwIdle

\* manifest after the chunk_upload requests ups (in that order, one at a time)
RECURSIVE ManifestAfter(_, _)
ManifestAfter(m, ups) ==
    IF ups = <<>> THEN m
    ELSE ManifestAfter(UpdatedManifest(m, Head(ups)), Tail(ups))

\* temp_dir after the same requests
RECURSIVE ChunksAfter(_, _)
ChunksAfter(files, ups) ==
    IF ups = <<>> THEN files
    ELSE ChunksAfter([files EXCEPT ![Head(ups).part] = <<Head(ups).data>>], Tail(ups))

\* request sequences that upload each of the parts in P once, in ascending order
UploadRuns(P) ==
    {ups \in [1..Cardinality(P) -> [part : P, data : ChunkData, checksum : {NoChecksum}]] :
        \A i, j \in DOMAIN ups : i < j => ups[i].part < ups[j].part}

\* sizes a client declares at chunk_init
TotalSizes == {ChunkSize * n - 1 : n \in 1..MaxParts}

\* the state chunk_init leaves: a fresh manifest, no part received
SessionFresh ==
    /\ \E total_size \in TotalSizes : manifest = NewManifest(total_size, ChunkSize)
    /\ chunkFiles = [p \in 1..MaxParts |-> <<>>]
    /\ latest = [p \in 1..MaxParts |-> <<>>]

\* a session after chunk_init and some accepted chunk_upload requests
SessionPopulated ==
    \E total_size \in TotalSizes :
        \E P \in SUBSET (1..Ceil(total_size, ChunkSize)) :
            \E ups \in UploadRuns(P) :
                /\ manifest = ManifestAfter(NewManifest(total_size, ChunkSize), ups)
                /\ chunkFiles = ChunksAfter([p \in 1..MaxParts |-> <<>>], ups)
                /\ latest = [p \in 1..MaxParts |->
                               LET file == ChunksAfter([q \in 1..MaxParts |-> <<>>], ups)[p]
                               IN  IF file = <<>> THEN <<>> ELSE file[1]]

\* one client uploading and finalizing a fresh session
SessionInit ==
    /\ DlmIdle
    /\ usingFallback = FALSE
    /\ nodes = TwoNodes
    /\ SessionFresh
    /\ StoreRest
    /\ ProcIdle

\* the client sends a request when it has the response to the previous one
ClientUpload(part, data, cs) == fpc["f1"] = "idle" /\ UpStart("u1", part, data, cs)
ClientComplete(cs) == upc["u1"] = "idle" /\ FStart("f1", cs, DOWNLOAD_LIMIT)

SessionNext ==
    \/ \E part \in PartNumbers, data \in ChunkData \cup {<<>>}, cs \in PartChecksums :
            ClientUpload(part, data, cs)
    \/ UpWrite("u1")
    \/ UpVerify("u1")
    \/ UpSave("u1")
    \/ \E cs \in FileChecksums : ClientComplete(cs)
    \/ FManifest("f1")
    \/ FSelect("f1")
    \/ FOpen("f1")
    \/ FStitch("f1")
    \/ FVerify("f1")
    \/ FReplicate("f1")
    \/ FCommit("f1")
    \/ FPublish("f1")
    \/ FCleanup("f1")
    \/ FRelease("f1")

SpecSession == SessionInit /\ [][SessionNext]_vars

\* concurrent chunk_complete calls on a session whose uploads are over
FinalizeInit ==
    /\ DlmIdle
    /\ usingFallback \in BOOLEAN
    /\ nodes \in NodeConfigs
    /\ SessionPopulated
    /\ StoreRest
    /\ ProcIdle

FinalizeNext ==
    \/ \E f \in Finalizers, cs \in FileChecksums : FStart(f, cs, DOWNLOAD_LIMIT)
    \/ \E f \in Finalizers : FManifest(f)
    \/ \E f \in Finalizers : FSelect(f)
    \/ \E f \in Finalizers : FOpen(f)
    \/ \E f \in Finalizers : FStitch(f)
    \/ \E f \in Finalizers : FVerify(f)
    \/ \E f \in Finalizers : FReplicate(f)
    \/ \E f \in Finalizers : FCommit(f)
    \/ \E f \in Finalizers : FPublish(f)
    \/ \E f \in Finalizers : FCleanup(f)
    \/ \E f \in Finalizers : FRelease(f)
    \/ UploadLockExpire

SpecFinalize == FinalizeInit /\ [][FinalizeNext]_vars

\* a session with every part uploaded, about to be finalized and downloaded
DownloadInit ==
    /\ DlmIdle
    /\ usingFallback = FALSE
    /\ nodes = TwoNodes
    /\ SessionPopulated
    /\ ~PartsIncomplete(manifest)
    /\ StoreRest
    /\ ProcIdle

\* chunk_complete called by one client with a download_limit of its choice
CompleteNext ==
    \/ \E limit \in 1..MaxLimit : FStart("f1", NoChecksum, limit)
    \/ FManifest("f1")
    \/ FSelect("f1")
    \/ FOpen("f1")
    \/ FStitch("f1")
    \/ FVerify("f1")
    \/ FReplicate("f1")
    \/ FCommit("f1")
    \/ FPublish("f1")
    \/ FCleanup("f1")
    \/ FRelease("f1")

DownloadNext ==
    \/ CompleteNext
    \/ \E d \in Downloaders, k \in FileIds : DlStart(d, k)
    \/ \E d \in Downloaders : DlLock(d)
    \/ \E d \in Downloaders : DlDecr(d)
    \/ \E d \in Downloaders : DlUpdate(d)
    \/ \E d \in Downloaders : DlServe(d)
    \/ \E d \in Downloaders : DlFinally(d)
    \/ \E d \in Downloaders : DlReturn(d)
    \/ \E k \in FileIds : MetaCacheLost(k)

SpecDownload == DownloadInit /\ [][DownloadNext]_vars

\* the same with one client downloading: each request after the previous
\* response, the cache entry kept for the file's lifetime
Next ==
    \/ CompleteNext
    \/ \E k \in FileIds : DlStart("d1", k)
    \/ DlLock("d1")
    \/ DlDecr("d1")
    \/ DlUpdate("d1")
    \/ DlServe("d1")
    \/ DlFinally("d1")
    \/ DlReturn("d1")

Spec == DownloadInit /\ [][Next]_vars

\* ------------------------------------------------------------------------
\* NodeSelector called on its own over a three-node table
\* ------------------------------------------------------------------------
\* rows a storage_nodes table may hold
SelRows ==
    { [NodeRow(TRUE, TRUE, 0, 0) EXCEPT !.file_count = 3],
      NodeRow(TRUE, TRUE, 0, 10 * MB),
      NodeRow(TRUE, FALSE, 0, 50 * MB),
      NodeRow(FALSE, TRUE, 0, 0),
      NodeRow(TRUE, TRUE, 2, 0),
      [NodeRow(TRUE, FALSE, 0, 95 * MB) EXCEPT !.file_count = 1] }

\* counts asked for: REPLICATION_FACTOR - 1 for a REPLICATION_FACTOR of 0, 1, ...
ReplicaCounts == -1..MaxCount

\* file sizes asked for: half a megabyte, ten megabytes
FileSizes == {MB \div 2, 10 * MB}

storeButNodes == <<usingFallback, manifest, chunkFiles, latest, upLock, fcalls, ucalls,
                   disk, dbFiles, counters, metaCache>>

\* select_primary_node(file_size)
SelPrimaryCall(file_size) ==
    /\ selCalls < MaxSelCalls
    /\ selCalls' = selCalls + 1
    /\ \E pair \in SelectPrimaryNode(nodes, file_size) :
        /\ nodes' = pair[2]
        /\ selLast' = [op |-> "primary", file_size |-> file_size, primary |-> NoNode,
                       count |-> 0, rows |-> nodes,
                       result |-> IF pair[1] = NoNode THEN <<>> ELSE <<pair[1]>>]
    /\ UNCHANGED <<dlmVars, storeButNodes, upVars, finVars, dlVars, primCount, hcVars, rmVars, rfVars, hpVars, lkVars, fbVars>>

\* select_replica_nodes(primary_node, count, file_size)
SelReplicaCall(primary, count, file_size) ==
    /\ selCalls < MaxSelCalls
    /\ selCalls' = selCalls + 1
    /\ \E reps \in SelectReplicaNodes(nodes, primary, count, file_size) :
        selLast' = [op |-> "replicas", file_size |-> file_size, primary |-> primary,
                    count |-> count, rows |-> nodes, result |-> reps]
    /\ UNCHANGED <<dlmVars, storeVars, upVars, finVars, dlVars, primCount, hcVars, rmVars, rfVars, hpVars, lkVars, fbVars>>

SelectorInit ==
    /\ DlmIdle
    /\ usingFallback = FALSE
    /\ manifest = NoManifest
    /\ chunkFiles = [p \in 1..MaxParts |-> <<>>]
    /\ latest = [p \in 1..MaxParts |-> <<>>]
    /\ nodes \in [SelNodes -> SelRows]
    /\ StoreRest
    /\ ProcIdle

SelectorNext ==
    \/ \E file_size \in FileSizes : SelPrimaryCall(file_size)
    \/ \E primary \in SelNodes, count \in ReplicaCounts, file_size \in FileSizes :
            SelReplicaCall(primary, count, file_size)

SpecSelector == SelectorInit /\ [][SelectorNext]_vars

\* ------------------------------------------------------------------------
\* a run of uploads of one size over nodes that start out alike
\* ------------------------------------------------------------------------
\* upload_file as the selector sees it: select_primary_node(file_size), then
\* the file is added to the primary's used_space and file_count
RunUpload(file_size) ==
    /\ selCalls < MaxRun
    /\ selLast.op = "upload" => file_size = selLast.file_size
    /\ selCalls' = selCalls + 1
    /\ \E pair \in SelectPrimaryNode(nodes, file_size) :
        /\ selLast' = [op |-> "upload", file_size |-> file_size, primary |-> NoNode,
                       count |-> 0, rows |-> nodes,
                       result |-> IF pair[1] = NoNode THEN <<>> ELSE <<pair[1]>>]
        /\ IF pair[1] = NoNode
           THEN nodes' = pair[2] /\ UNCHANGED primCount
           ELSE /\ nodes' = [pair[2] EXCEPT ![pair[1]].used_space = @ + file_size,
                                             ![pair[1]].file_count = @ + 1,
                                             ![pair[1]].fresh = TRUE]
                /\ primCount' = [primCount EXCEPT ![pair[1]] = @ + 1]
    /\ UNCHANGED <<dlmVars, storeButNodes, upVars, finVars, dlVars, hcVars, rmVars, rfVars, hpVars, lkVars, fbVars>>

\* online nodes with fresh heartbeats, the same used_space and the same
\* file_count, each with its own error_count below the limit
FairnessInit ==
    /\ DlmIdle
    /\ usingFallback = FALSE
    /\ manifest = NoManifest
    /\ chunkFiles = [p \in 1..MaxParts |-> <<>>]
    /\ latest = [p \in 1..MaxParts |-> <<>>]
    /\ \E used \in {0, 10 * MB}, files \in {0, 3}, errors \in [SelNodes -> {0, 2}] :
        nodes = [n \in SelNodes |->
                   [NodeRow(TRUE, TRUE, errors[n], used) EXCEPT !.file_count = files]]
    /\ StoreRest
    /\ ProcIdle

FairnessNext == \E file_size \in FileSizes : RunUpload(file_size)

SpecFairness == FairnessInit /\ [][FairnessNext]_vars

\* ------------------------------------------------------------------------
\* the HealthCheckMonitor sweeping the storage_nodes table
\* ------------------------------------------------------------------------
\* check_all_nodes(): healthy[n] is check_node's verdict on n; commits tells
\* whether the try block ran through its commit, or raised and was rolled back
HcCheckAll(healthy, commits) ==
    /\ hcSweeps < MaxSweeps
    /\ hcSweeps' = hcSweeps + 1
    /\ nodes' = IF commits THEN HcSweep(nodes, healthy) ELSE nodes
    /\ hcLast' = [rows |-> nodes, healthy |-> healthy, committed |-> commits]
    /\ UNCHANGED <<dlmVars, storeButNodes, upVars, finVars, dlVars, selVars, rmVars, rfVars, hpVars, lkVars, fbVars>>

\* rows the monitor may find: a new node, a node that failed three checks,
\* a node taken offline, a node mark_node_error counted up while online
HcRows ==
    { NodeRow(TRUE, TRUE, 0, 0),
      NodeRow(TRUE, FALSE, 3, 0),
      NodeRow(FALSE, FALSE, 6, 0),
      NodeRow(TRUE, TRUE, 7, 0) }

HealthInit ==
    /\ DlmIdle
    /\ usingFallback = FALSE
    /\ manifest = NoManifest
    /\ chunkFiles = [p \in 1..MaxParts |-> <<>>]
    /\ latest = [p \in 1..MaxParts |-> <<>>]
    /\ nodes \in [Nodes -> HcRows]
    /\ StoreRest
    /\ ProcIdle

HealthNext == \E healthy \in [Nodes -> BOOLEAN], commits \in BOOLEAN : HcCheckAll(healthy, commits)

SpecHealth == HealthInit /\ [][HealthNext]_vars

\* _monitor_loop(): one round of the monitor thread, a check_all_nodes call
\* on the rows the round before left
HcMonitorLoop(healthy, commits) ==
    /\ hcSweeps < MaxLoops
    /\ hcSweeps' = hcSweeps + 1
    /\ nodes' = IF commits THEN HcSweep(nodes, healthy) ELSE nodes
    /\ hcLast' = [rows |-> nodes, healthy |-> healthy, committed |-> commits]
    /\ UNCHANGED <<dlmVars, storeButNodes, upVars, finVars, dlVars, selVars, rmVars, rfVars, hpVars, lkVars, fbVars>>

\* the table as init_db leaves it: every node online with no error counted
MonitorInit ==
    /\ DlmIdle
    /\ usingFallback = FALSE
    /\ manifest = NoManifest
    /\ chunkFiles = [p \in 1..MaxParts |-> <<>>]
    /\ latest = [p \in 1..MaxParts |-> <<>>]
    /\ nodes = [n \in Nodes |-> NodeRow(TRUE, TRUE, 0, 0)]
    /\ StoreRest
    /\ ProcIdle

MonitorNext == \E healthy \in [Nodes -> BOOLEAN], commits \in BOOLEAN : HcMonitorLoop(healthy, commits)

\* the monitor thread alone, on a new table
SpecMonitor == MonitorInit /\ [][MonitorNext]_vars

\* ------------------------------------------------------------------------
\* the ReplicationManager: its health monitor thread and its selections
\* ------------------------------------------------------------------------
\* what the client's health_check() may hand to _check_node_health: the
\* node's answer, the {'status': 'offline'} the client returns on an error,
\* and "raised" for an answer that makes _check_node_health itself raise
HealthResponses ==
    { [status |-> "online", file_count |-> 0, used_space |-> 0],
      [status |-> "online", file_count |-> 1, used_space |-> MB],
      [status |-> "offline", file_count |-> 0, used_space |-> 0],
      [status |-> "raised", file_count |-> 0, used_space |-> 0] }

\* node ids a caller may pass: the configured ones and one that is not
RmIds == RmNodes \cup {"node9"}

otherVars == <<dlmVars, storeVars, upVars, finVars, dlVars, selVars, hcVars, lkVars, fbVars>>

\* upload_file as the files table sees it: the primary and the replicas the
\* NodeSelector gives, the File row with replica_nodes=json.dumps(ids), and
\* the statistics of the nodes that took a copy, committed together
RecUpload(file_size) ==
    /\ ~fileRec.exists
    /\ \E pair \in SelectPrimaryNode(nodes, file_size) :
        /\ pair[1] # NoNode
        /\ \E reps \in SelectReplicaNodes(pair[2], pair[1], REPLICATION_FACTOR - 1, file_size) :
            /\ fileRec' = [exists |-> TRUE, primary_node |-> pair[1],
                           replica_nodes |-> JsonDumps(reps)]
            /\ nodes' = [n \in DOMAIN nodes |->
                           IF n = pair[1] \/ n \in SeqRange(reps)
                           THEN [pair[2][n] EXCEPT !.used_space = @ + file_size,
                                                   !.file_count = @ + 1]
                           ELSE pair[2][n]]
    /\ UNCHANGED <<dlmVars, storeButNodes, upVars, finVars, dlVars, selVars, hcVars, rmVars,
                   rfpc, rfreq, rfidx, results, rflog, hpVars, lkVars, fbVars>>

\* _check_node_health(node_id)
RmCheckNodeHealth(node_id, response) ==
    /\ node_health' = [node_health EXCEPT
                          ![node_id] = CheckNodeHealth(node_health[node_id], response)]
    /\ rmLast' = [op |-> "check", node |-> node_id, before |-> node_health,
                  response |-> response.status, result |-> <<>>]
    /\ UNCHANGED <<otherVars, rfVars, hpVars>>

\* select_replica_nodes(exclude_node)
RmSelectReplicas(exclude_node) ==
    /\ rmLast' = [op |-> "replicas", node |-> exclude_node, before |-> node_health,
                  response |-> "none",
                  result |-> RmSelectReplicaNodes(node_health, exclude_node)]
    /\ UNCHANGED <<otherVars, node_health, rfVars, hpVars>>

\* select_primary_node()
RmSelectPrimary ==
    /\ rmLast' = [op |-> "primary", node |-> NoNode, before |-> node_health,
                  response |-> "none",
                  result |-> IF RmSelectPrimaryNode(node_health) = NoNode THEN <<>>
                             ELSE <<RmSelectPrimaryNode(node_health)>>]
    /\ UNCHANGED <<otherVars, node_health, rfVars, hpVars>>

\* the registry as __init__ leaves it before its first check
RegistryInit ==
    /\ DlmIdle
    /\ usingFallback = FALSE
    /\ manifest = NoManifest
    /\ chunkFiles = [p \in 1..MaxParts |-> <<>>]
    /\ latest = [p \in 1..MaxParts |-> <<>>]
    /\ nodes = TwoNodes
    /\ StoreRest
    /\ ProcIdle

RegistryNext ==
    \/ \E node_id \in RmNodes, response \in HealthResponses :
            RmCheckNodeHealth(node_id, response)
    \/ \E exclude_node \in RmIds : RmSelectReplicas(exclude_node)
    \/ RmSelectPrimary

SpecRegistry == RegistryInit /\ [][RegistryNext]_vars

\* ------------------------------------------------------------------------
\* a replicate_file call
\* ------------------------------------------------------------------------
\* replica_nodes lists a caller may pass
ReplicaLists == UNION {[1..n -> RmIds] : n \in 0..MaxReplicas}

\* replicate_file(file_id, filename, primary_node, replica_nodes, db):
\* results = {}; primary_client = self.node_clients[primary_node], whose
\* KeyError leaves the outer try before the loop
RfStart(primary_node, replica_nodes, db) ==
    /\ rfpc = "idle"
    /\ rfreq' = [primary_node |-> primary_node, replica_nodes |-> replica_nodes,
                 db |-> db, row |-> fileRec]
    /\ results' = <<>>
    /\ rflog' = <<>>
    /\ rfidx' = 1
    /\ rfpc' = IF primary_node \in RmNodes /\ replica_nodes # <<>> THEN "loop" ELSE "db"
    /\ UNCHANGED <<otherVars, rmVars, fileRec, hpVars>>

\* one pass of the loop over replica_nodes
RfPass(outcome) ==
    /\ rfpc = "loop"
    /\ LET r == rfreq.replica_nodes[rfidx]
           met == IF r \in RmNodes THEN outcome ELSE "no_client"
       IN  /\ results' = DictSet(results, r, PassSuccess(met))
           /\ rflog' = Append(rflog, [node |-> r, outcome |-> met])
    /\ rfidx' = rfidx + 1
    /\ rfpc' = IF rfidx = Len(rfreq.replica_nodes) THEN "db" ELSE "loop"
    /\ UNCHANGED <<otherVars, rmVars, rfreq, fileRec, hpVars>>

\* the UPDATE of files.replica_nodes when db is given, and the return
RfFinish(dbOk) ==
    /\ rfpc = "db"
    /\ fileRec' = IF rfreq.db = "db" /\ dbOk /\ fileRec.exists
                  THEN [fileRec EXCEPT !.replica_nodes = CommaJoin(SuccessfulReplicas(results))]
                  ELSE fileRec
    /\ rfpc' = "returned"
    /\ UNCHANGED <<otherVars, rmVars, rfreq, rfidx, results, rflog, hpVars>>

ReplicateNext ==
    \/ \E file_size \in FileSizes : RecUpload(file_size)
    \/ \E primary_node \in RmIds, replica_nodes \in ReplicaLists, db \in {"none", "db"} :
            RfStart(primary_node, replica_nodes, db)
    \/ \E outcome \in PassOutcomes : RfPass(outcome)
    \/ \E dbOk \in BOOLEAN : RfFinish(dbOk)

SpecReplicate == RegistryInit /\ [][ReplicateNext]_vars

\* ------------------------------------------------------------------------
\* a handle_primary_failure call
\* ------------------------------------------------------------------------
\* handle_primary_failure(file_id, filename, failed_primary, replica_nodes, db);
\* with no candidate the loop is skipped and None is returned
HpStart(failed_primary, replica_nodes, db) ==
    /\ hpc = "idle"
    /\ hreq' = [failed_primary |-> failed_primary, replica_nodes |-> replica_nodes,
                db |-> db]
    /\ hidx' = 1
    /\ hlog' = <<>>
    /\ hrec' = fileRec
    /\ hret' = NoNode
    /\ hpc' = IF replica_nodes = <<>> THEN "returned" ELSE "loop"
    /\ UNCHANGED <<otherVars, rmVars, rfVars, tfLast>>

\* one pass of the loop: self._check_node_health(replica_node). For an id
\* that is no key of node_clients the KeyError is caught inside
\* _check_node_health, whose except clause raises it again on node_health,
\* and the call ends with that exception
HpPass(response) ==
    /\ hpc = "loop"
    /\ LET c == hreq.replica_nodes[hidx]
           last == hidx = Len(hreq.replica_nodes)
       IN  IF c \notin RmNodes
           THEN /\ hlog' = Append(hlog, [node |-> c, verdict |-> "raised"])
                /\ hpc' = "raised"
                /\ UNCHANGED <<rmVars, hidx>>
           ELSE /\ node_health' = [node_health EXCEPT
                                     ![c] = CheckNodeHealth(node_health[c], response)]
                /\ rmLast' = [op |-> "check", node |-> c, before |-> node_health,
                              response |-> response.status, result |-> <<>>]
                /\ hlog' = Append(hlog, [node |-> c, verdict |-> response.status])
                /\ IF CheckReturns(response)
                   THEN hpc' = "promote" /\ UNCHANGED hidx
                   ELSE hpc' = (IF last THEN "returned" ELSE "loop") /\ hidx' = hidx + 1
    /\ UNCHANGED <<otherVars, rfVars, hreq, hret, hrec, tfLast>>

\* new_replicas = [n for n in replica_nodes if n != replica_node]
NewReplicas(replica_nodes, replica_node) == Without(replica_nodes, replica_node)

\* the UPDATE of primary_node and replica_nodes when db is given, its
\* exception caught, and return replica_node
HpPromote(dbOk) ==
    /\ hpc = "promote"
    /\ LET c == hreq.replica_nodes[hidx]
       IN  /\ fileRec' = IF hreq.db = "db" /\ dbOk /\ fileRec.exists
                         THEN [fileRec EXCEPT
                                 !.primary_node = c,
                                 !.replica_nodes = CommaJoin(NewReplicas(hreq.replica_nodes, c))]
                         ELSE fileRec
           /\ hret' = c
    /\ hpc' = "returned"
    /\ UNCHANGED <<otherVars, rmVars, rfpc, rfreq, rfidx, results, rflog,
                   hreq, hidx, hlog, hrec, tfLast>>

\* the upload of the file, before its primary fails
UploadBeforeFailure(file_size) == hpc = "idle" /\ RecUpload(file_size)

PromoteNext ==
    \/ \E file_size \in FileSizes : UploadBeforeFailure(file_size)
    \/ \E failed_primary \in RmIds, replica_nodes \in ReplicaLists, db \in {"none", "db"} :
            HpStart(failed_primary, replica_nodes, db)
    \/ \E response \in HealthResponses : HpPass(response)
    \/ \E dbOk \in BOOLEAN : HpPromote(dbOk)

SpecPromote == RegistryInit /\ [][PromoteNext]_vars

\* ------------------------------------------------------------------------
\* the File row under uploads and trigger_failover calls
\* ------------------------------------------------------------------------
\* what a trigger_failover(failed_node_id) call comes to, present being the
\* nodes whose path holds the file
FailoverOutcome(failed_node_id, present, commits) ==
    IF ~fileRec.exists \/ fileRec.primary_node # failed_node_id THEN "no_files"
    ELSE IF ~\E n \in DOMAIN nodes : nodes[n].is_online /\ n # failed_node_id
    THEN "no_healthy_nodes"
    ELSE IF JsonLoadsRaises(fileRec.replica_nodes) THEN "unreadable"
    ELSE IF SourceNode(nodes, fileRec.replica_nodes.list, present) = NoNode
    THEN "no_replica"
    ELSE IF commits THEN "migrated" ELSE "rolled_back"

\* trigger_failover(failed_node_id) over the one file
HcTriggerFailover(failed_node_id, present, commits) ==
    /\ fileRec' =
          IF FailoverOutcome(failed_node_id, present, commits) = "migrated"
          THEN [fileRec EXCEPT
                  !.primary_node = SourceNode(nodes, fileRec.replica_nodes.list, present),
                  !.replica_nodes = JsonDumps(ReplicasAfterFailover(
                      fileRec.replica_nodes.list, failed_node_id))]
          ELSE fileRec
    /\ tfLast' = [failed_node_id |-> failed_node_id, before |-> fileRec,
                  outcome |-> FailoverOutcome(failed_node_id, present, commits)]
    /\ UNCHANGED <<otherVars, rmVars, rfpc, rfreq, rfidx, results, rflog,
                   hpc, hreq, hidx, hret, hlog, hrec>>

\* rows of the storage_nodes table when the file is uploaded
FailoverRows ==
    { NodeRow(TRUE, TRUE, 0, 0),
      NodeRow(TRUE, TRUE, 0, 10 * MB),
      NodeRow(FALSE, TRUE, 0, 0) }

FailoverInit ==
    /\ DlmIdle
    /\ usingFallback = FALSE
    /\ manifest = NoManifest
    /\ chunkFiles = [p \in 1..MaxParts |-> <<>>]
    /\ latest = [p \in 1..MaxParts |-> <<>>]
    /\ nodes \in [SelNodes -> FailoverRows]
    /\ StoreRest
    /\ ProcIdle

FailoverNext ==
    \/ \E file_size \in FileSizes : RecUpload(file_size)
    \/ \E failed_node_id \in SelNodes, present \in SUBSET SelNodes, commits \in BOOLEAN :
            HcTriggerFailover(failed_node_id, present, commits)

SpecFailover == FailoverInit /\ [][FailoverNext]_vars

\* chunk_upload requests of one client overlapping the chunk_complete calls of
\* another, on a session with every part uploaded
OverlapNext ==
    \/ \E part \in PartNumbers, data \in ChunkData, cs \in PartChecksums :
            UpStart("u1", part, data, cs)
    \/ UpWrite("u1")
    \/ UpVerify("u1")
    \/ UpSave("u1")
    \/ FStart("f1", NoChecksum, DOWNLOAD_LIMIT)
    \/ FManifest("f1")
    \/ FSelect("f1")
    \/ FOpen("f1")
    \/ FStitch("f1")
    \/ FVerify("f1")
    \/ FReplicate("f1")
    \/ FCommit("f1")
    \/ FPublish("f1")
    \/ FCleanup("f1")
    \/ FRelease("f1")

SpecOverlap == DownloadInit /\ [][OverlapNext]_vars

\* chunk_upload requests of two clients on one fresh session, overlapping
UploadsNext ==
    \/ \E u \in Uploaders, part \in PartNumbers, data \in ChunkData, cs \in PartChecksums :
            UpStart(u, part, data, cs)
    \/ \E u \in Uploaders : UpWrite(u)
    \/ \E u \in Uploaders : UpVerify(u)
    \/ \E u \in Uploaders : UpSave(u)

SpecUploads == SessionInit /\ [][UploadsNext]_vars

\* no key in either store
FallbackInit == DlmIdle /\ GwIdle

\* a RedisClient on Redis and one on InMemoryCache, given the same calls
FallbackNext ==
    \/ FbAcquireLock
    \/ FbReleaseLock
    \/ FbIsLocked
    \/ \E limit \in 1..MaxLimit : FbSetDownloadCounter(limit)
    \/ FbDecrementCounter
    \/ \E name \in KeyNames : FbTtlPasses(name)

SpecFallback == FallbackInit /\ [][FallbackNext]_vars

\* the upload lock, the download lock of file 1 and the lock manager's key,
\* with holders that never release: RedisClient on Redis or on its fallback,
\* the lock manager on a decoding connection
LockInit ==
    /\ DlmIdle
    /\ usingFallback \in BOOLEAN
    /\ manifest = NoManifest
    /\ nodes = TwoNodes
    /\ chunkFiles = [p \in 1..MaxParts |-> <<>>]
    /\ latest = [p \in 1..MaxParts |-> <<>>]
    /\ StoreRest
    /\ ProcIdle

LockNext ==
    \/ \E f \in Finalizers, ok \in BOOLEAN : AcquireUploadLock(f, ok)
    \/ UploadLockExpire
    \/ \E d \in Downloaders, ok \in BOOLEAN : AcquireDownloadLock(d, 1, ok)
    \/ DownloadLockExpire(1)
    \/ \E c \in Callers : DlmAcquire(c)
    \/ DlmExpire

\* Redis drops a key when its TTL is over; clients keep asking for a lock and
\* the store keeps answering them
LockFairness ==
    /\ WF_vars(UploadLockExpire)
    /\ WF_vars(DlmExpire)
    /\ WF_vars(DownloadLockExpire(1))
    /\ WF_vars(\E f \in Finalizers : AcquireUploadLock(f, TRUE))
    /\ WF_vars(\E d \in Downloaders : AcquireDownloadLock(d, 1, TRUE))

SpecLockTtl == LockInit /\ [][LockNext]_vars /\ LockFairness

DlmNext ==
    \/ \E c \in Callers : DlmAcquire(c)
    \/ \E c \in Callers : DlmReleaseGet(c)
    \/ \E c \in Callers : DlmReleaseDelete(c)
    \/ \E c \in Callers : DlmExtendGet(c)
    \/ \E c \in Callers : DlmExtendExpire(c)
    \/ DlmExpire

SpecDLM == DlmInit /\ [][DlmNext]_vars

\* ========================================================================
\* Claims
\* ========================================================================

\* C1: while A's token is stored under the lock key (A acquired, did not
\* release, the TTL did not run out), an acquire by another caller B returns
\* None and leaves A's token stored.
C1_AcquireMutuallyExclusive ==
    [][\A a \in Callers, b \in Callers :
        (a # b /\ dlmVal # NoToken /\ dlmVal = dtok[a] /\ DlmAcquire(b))
            => (dres'[b] = PyNone /\ dlmVal' = dlmVal)]_vars

\* C2: release called with a token that differs from the stored value (or
\* with no key stored) returns False and leaves the key, its value and its
\* TTL unchanged.
C2_ReleaseMismatchKeepsKey ==
    [][\A c \in Callers :
        (DlmReleaseGet(c) /\ darg'[c] # dlmVal)
            => /\ dres'[c] = PyBool(FALSE)
               /\ dlast'[c] = "release"
               /\ dpc'[c] = "idle"
               /\ dlmVal' = dlmVal
               /\ dlmTtl' = dlmTtl]_vars

\* C2 witness: a release with a non-matching token has returned False while
\* another token is still stored.
C2_Witness ==
    \E c \in Callers :
        /\ dlast[c] = "release"
        /\ dpc[c] = "idle"
        /\ dres[c] = PyBool(FALSE)
        /\ dlmVal # NoToken
        /\ darg[c] # dlmVal

\* C27: extend returns True and sets a TTL only on a key whose stored value
\* is the caller's token; called when the stored value differs or no key is
\* stored it returns False and changes neither the value nor its TTL.
C27_ExtendOnlyOwnLock ==
    [][\A c \in Callers :
        /\ (DlmExtendGet(c) /\ darg'[c] # dlmVal)
              => /\ dres'[c] = PyBool(FALSE)
                 /\ dlast'[c] = "extend"
                 /\ dpc'[c] = "idle"
                 /\ dlmVal' = dlmVal
                 /\ dlmTtl' = dlmTtl
        /\ (DlmExtendExpire(c) /\ dres'[c] = PyBool(TRUE))
              => /\ dlmVal = darg[c]
                 /\ dlmVal' = dlmVal]_vars

\* ------------------------------------------------------------------------
\* download counter and download_file
\* ------------------------------------------------------------------------
\* indices of the decrement_counter calls on file k that were not refused
Consumed(k) == {i \in DOMAIN consumed[k] : consumed[k][i] # PyBool(FALSE)}

\* C3: on a counter initialised to L, the callers of decrement_counter that
\* are not refused observe pairwise distinct remaining values.
C3_DistinctRemaining ==
    \A k \in FileIds :
        dbFiles[k].exists =>
            \A i, j \in Consumed(k) : i # j => consumed[k][i][2] # consumed[k][j][2]

\* C4: a file whose download_limit is L is sent at most L times.
C4_ServedAtMostLimit ==
    \A k \in FileIds : dbFiles[k].exists => served[k] <= dbFiles[k].download_limit

\* C5: of the downloads made one after the other on a file finalized with
\* download_limit L, the i-th is served and leaves L - i remaining for
\* i <= L, and any later one is answered 'Download limit reached'.
C5_SequentialDownloads ==
    \A k \in FileIds :
        flog[k].out = "ok" =>
            \A i \in DOMAIN dlog[k] :
                IF i <= dbFiles[k].download_limit
                THEN /\ dlog[k][i].out = "served"
                     /\ dlog[k][i].downloads_left = dbFiles[k].download_limit - i
                ELSE dlog[k][i].out = "limit"

\* the counter of every file, once set, is at least -1
C28_State == \A k \in FileIds : counters[k].present => counters[k].val >= -1

\* no step makes the counter of a file, once set, larger
C28_Step ==
    \A k \in FileIds :
        counters[k].present => counters'[k].present /\ counters'[k].val <= counters[k].val

\* C28: once set_download_counter has created it, the download counter of a
\* file never increases and never falls below -1, however many download
\* requests follow.
C28_CounterMonotoneFloored == []C28_State /\ [][C28_Step]_vars

\* ------------------------------------------------------------------------
\* chunk_upload
\* ------------------------------------------------------------------------
\* C29: a lock whose holder never releases does not stay forever: the upload
\* lock and the download lock of RedisClient.acquire_lock are dropped when
\* their TTL is over and a later acquire_lock on the same key returns True;
\* the key of DistributedLockManager.acquire is dropped when its TTL is over
\* (acquire itself never refuses: its SET replaces whatever is stored)
C29_StuckLockExpires ==
    /\ [](upLock # "free" => <>(upLock = "free" /\ <>(upLock # "free")))
    /\ [](dlLock[1] # "free" => <>(dlLock[1] = "free" /\ <>(dlLock[1] # "free")))
    /\ (dlmVal # NoToken) ~> (dlmVal = NoToken)

\* both clients took the upload lock, the second after the first one's expired
C29_Witness == lkTaken = Finalizers /\ upLock # "free"

\* a chunk_complete call has committed its File row and deleted upload:{upload_id}
SessionDeleted == ~manifest.exists /\ \E k \in FileIds : dbFiles[k].exists

\* C30: once a chunk_complete call has committed and deleted the manifest, no
\* step of a chunk_upload or chunk_complete call, overlapping or later, stores
\* a manifest again or adds a File row
C30_SessionStaysDeleted ==
    [][SessionDeleted =>
         /\ ~manifest'.exists
         /\ \A k \in FileIds : dbFiles'[k].exists => dbFiles[k].exists]_vars

\* C11: a chunk_upload request on a session that does not exist, whose status
\* is not in_progress, or with a part_number outside 1..parts_expected is
\* answered with an error and changes neither the manifest nor the part files.
C11_RejectedUploadChangesNothing ==
    [][\A u \in Uploaders, part \in PartNumbers, data \in ChunkData \cup {<<>>},
          cs \in PartChecksums :
        ( /\ UpStart(u, part, data, cs)
          /\ \/ ~manifest.exists
             \/ manifest.status # "in_progress"
             \/ part < 1
             \/ part > manifest.parts_expected )
        => /\ uresp'[u] \in {"not_found", "not_active", "invalid_part"}
           /\ upc'[u] = "idle"
           /\ UNCHANGED <<manifest, chunkFiles>>]_vars

\* C11 witness: a request with a part_number out of range has been rejected on
\* a session that already holds parts.
C11_Witness ==
    \E u \in Uploaders :
        /\ uresp[u] = "invalid_part"
        /\ upc[u] = "idle"
        /\ manifest.exists /\ manifest.received > 0

\* the manifest's entry of part p
PartEntry(m, p) == m.parts[CHOOSE i \in DOMAIN m.order : m.order[i] = p]

\* the request of u repeats the last accepted upload of its part: same part
\* number, same bytes, same checksum argument
RepeatsUpload(u) ==
    /\ HasPart(manifest, ureq[u].part)
    /\ latest[ureq[u].part] = ureq[u].data
    /\ PartEntry(manifest, ureq[u].part).checksum = ureq[u].checksum

C12_State ==
    manifest.exists =>
        /\ manifest.received = Cardinality(SeqRange(manifest.order))
        /\ \A i, j \in DOMAIN manifest.order : i # j => manifest.order[i] # manifest.order[j]

C12_Step ==
    \A u \in Uploaders :
        (UpSave(u) /\ RepeatsUpload(u))
            => /\ manifest' = manifest
               /\ chunkFiles'[ureq[u].part] = <<ureq[u].data>>

\* C12: a chunk_upload that repeats an accepted upload of a part leaves the
\* manifest (parts and received) and the part file as the first upload left
\* them, and received is always the number of distinct parts recorded.
C12_UploadIdempotent == []C12_State /\ [][C12_Step]_vars

\* C12 witness: the bytes of a recorded part have been written again and the
\* request is about to record the part a second time.
C12_Witness ==
    \E u \in Uploaders :
        /\ upc[u] = "save"
        /\ RepeatsUpload(u)
        /\ chunkFiles[ureq[u].part] = <<ureq[u].data>>

\* C13: a chunk_upload whose checksum argument differs from the checksum of
\* the bytes it wrote goes through the comparison, removes the part file,
\* answers 'Checksum mismatch' and leaves the manifest as it was.
C13_PartChecksumMismatchRejected ==
    [][\A u \in Uploaders :
        /\ (UpWrite(u) /\ ureq[u].checksum # NoChecksum)
              => (upc'[u] = "verify" /\ manifest' = manifest)
        /\ ( /\ UpVerify(u)
             /\ chunkFiles[ureq[u].part] = <<ureq[u].data>>
             /\ Checksum(ureq[u].data) # ureq[u].checksum )
              => /\ chunkFiles'[ureq[u].part] = <<>>
                 /\ uresp'[u] = "checksum_mismatch"
                 /\ upc'[u] = "idle"
                 /\ manifest' = manifest]_vars

\* C13 witness: a request has been answered 'Checksum mismatch' on a session
\* that holds parts.
C13_Witness ==
    \E u \in Uploaders :
        /\ uresp[u] = "checksum_mismatch"
        /\ upc[u] = "idle"
        /\ manifest.exists /\ manifest.received > 0

\* ------------------------------------------------------------------------
\* NodeSelector
\* ------------------------------------------------------------------------
\* row n, as the last call found it, is online with room for the file plus
\* the 50 MB margin
HasRoom(n) ==
    /\ selLast.rows[n].is_online
    /\ selLast.rows[n].total_space - selLast.rows[n].used_space
            >= selLast.file_size + SpaceBufferMb * MB

\* C15: select_primary_node(size) returns only an online node whose free space
\* is at least size + 50 MB, and None when there is no such node.
C15_PrimaryOnlineWithRoom ==
    selLast.op = "primary" =>
        /\ selLast.result # <<>> => HasRoom(selLast.result[1])
        /\ (~\E n \in DOMAIN selLast.rows : HasRoom(n)) => selLast.result = <<>>

\* the rows the last select_primary_node call chose from: those passing the
\* filters of get_healthy_nodes, after the heartbeat refresh when the first
\* pass found none
Survivors ==
    LET min == MinSpaceMb(selLast.file_size)
        first == {n \in DOMAIN selLast.rows : IsHealthy(selLast.rows, n, min)}
    IN  IF first # {} THEN first
        ELSE {n \in DOMAIN selLast.rows : IsHealthy(RefreshAll(selLast.rows), n, min)}

\* C16: the node select_primary_node returns has the fewest files among the
\* nodes that passed the filters, and the most free space among those tied on
\* file_count.
C16_PrimaryFewestFiles ==
    (selLast.op = "primary" /\ selLast.result # <<>>) =>
        LET r == selLast.rows
            sel == selLast.result[1]
        IN  \A n \in Survivors :
                \/ r[sel].file_count < r[n].file_count
                \/ /\ r[sel].file_count = r[n].file_count
                   /\ r[sel].total_space - r[sel].used_space
                        >= r[n].total_space - r[n].used_space

\* C17: in a run of equal-size uploads over N nodes that start with equal
\* free space and equal file counts, after every N selections the numbers of
\* times the nodes were taken as primary differ by at most 1.
C17_SelectorFair ==
    (selLast.op = "upload" /\ selCalls % Cardinality(SelNodes) = 0)
        => \A a, b \in SelNodes : primCount[a] - primCount[b] <= 1

\* ------------------------------------------------------------------------
\* select_replica_nodes
\* ------------------------------------------------------------------------
\* result is a list without primary, of at most count nodes, none twice
ReplicasWellFormed(result, primary, count) ==
    /\ \A i \in DOMAIN result : result[i] # primary
    /\ Len(result) <= count
    /\ \A i, j \in DOMAIN result : i # j => result[i] # result[j]

\* C14: the list select_replica_nodes returns never holds the primary node,
\* never holds more nodes than the count asked for and never holds a node
\* twice, for NodeSelector.select_replica_nodes(primary_node, count, file_size)
\* and for ReplicationManager.select_replica_nodes(exclude_node) with its
\* replica_count, whatever the nodes and the count.
C14_ReplicasExcludePrimary ==
    /\ selLast.op = "replicas" =>
            ReplicasWellFormed(selLast.result, selLast.primary, selLast.count)
    /\ rmLast.op = "replicas" =>
            ReplicasWellFormed(rmLast.result, rmLast.node, replica_count)

\* ------------------------------------------------------------------------
\* HealthCheckMonitor
\* ------------------------------------------------------------------------
\* what the last sweep's failed check did to the row of n
FailedCheckCounted(n) ==
    /\ nodes[n].error_count = hcLast.rows[n].error_count + 1
    /\ nodes[n].error_count < OfflineThreshold =>
            nodes[n].is_online = hcLast.rows[n].is_online
    /\ nodes[n].error_count >= OfflineThreshold => ~nodes[n].is_online
    /\ nodes[n].is_online => hcLast.rows[n].is_online

C19_SingleFailureKeepsOnline ==
    ( /\ rmLast.op = "check"
      /\ rmLast.before[rmLast.node].status = "online"
      /\ rmLast.response # "online" )
        => node_health[rmLast.node].status = "online"

\* ------------------------------------------------------------------------
\* ReplicationManager.replicate_file
\* ------------------------------------------------------------------------
\* C20: when replicate_file returns, the loop has made one pass for every
\* item of replica_nodes, in order, whatever the earlier passes met, and the
\* returned map has exactly one entry, a boolean, for each node id of
\* replica_nodes and no other entry, for every primary_node and replica_nodes.
C20_OneEntryPerReplica ==
    rfpc = "returned" =>
        /\ Len(rflog) = Len(rfreq.replica_nodes)
        /\ \A i \in DOMAIN rflog : rflog[i].node = rfreq.replica_nodes[i]
        /\ {results[i][1] : i \in DOMAIN results} =
                {rfreq.replica_nodes[i] : i \in DOMAIN rfreq.replica_nodes}
        /\ \A i, j \in DOMAIN results : i # j => results[i][1] # results[j][1]
        /\ \A i \in DOMAIN results : results[i][2] \in BOOLEAN

\* C21: when replicate_file, called with a database handle for a file that
\* has its File row, has returned, the replica list of the row is the set of the requested replicas whose
\* entry in the returned map is True (no node when none succeeded), and the
\* row's primary_node is what it was.
C21_ReplicaListIsSuccesses ==
    (rfpc = "returned" /\ rfreq.db = "db" /\ rfreq.row.exists) =>
        /\ SeqRange(fileRec.replica_nodes.list) = SeqRange(SuccessfulReplicas(results))
        /\ fileRec.primary_node = rfreq.row.primary_node

\* ------------------------------------------------------------------------
\* ReplicationManager.handle_primary_failure
\* ------------------------------------------------------------------------
\* the candidates checked so far were all found unhealthy
NoneHealthy == \A i \in DOMAIN hlog : hlog[i].verdict # "online"

\* C22: handle_primary_failure checks the candidates in list order; the node
\* it returns is the first one whose health check succeeded: every candidate
\* before it was checked and failed, a candidate whose check failed is never
\* returned, and None is returned only after every candidate failed. (A
\* candidate that is no node of the manager ends the call with a KeyError:
\* nothing is returned then.)
C22_PromotesFirstHealthy ==
    /\ Len(hlog) <= Len(hreq.replica_nodes)
    /\ \A i \in DOMAIN hlog : hlog[i].node = hreq.replica_nodes[i]
    /\ \A i \in DOMAIN hlog : i < Len(hlog) => hlog[i].verdict # "online"
    /\ hpc # "returned" => hret = NoNode
    /\ (hpc = "returned" /\ hret # NoNode) =>
            /\ hlog # <<>>
            /\ hlog[Len(hlog)].verdict = "online"
            /\ hret = hlog[Len(hlog)].node
    /\ (hpc = "returned" /\ hret = NoNode) =>
            /\ Len(hlog) = Len(hreq.replica_nodes)
            /\ NoneHealthy

\* the second of two candidates was returned after the first failed its check
C22_Witness ==
    /\ hpc = "returned"
    /\ Len(hreq.replica_nodes) = 2
    /\ hret = hreq.replica_nodes[2]
    /\ hret # hreq.replica_nodes[1]
    /\ Len(hlog) = 2
    /\ hlog[1].verdict = "offline"

\* C23: when handle_primary_failure returns a node for a file that has its
\* row, the row's primary_node is that node and no candidate that was
\* skipped as unhealthy before it is in the row's replica list (replicas
\* [R1 offline, R2 online]: R2 is returned and R1 is not in the list).
C23_SkippedReplicasDropped ==
    (hpc = "returned" /\ hret # NoNode /\ hreq.db = "db" /\ hrec.exists) =>
        /\ fileRec.primary_node = hret
        /\ \A i \in DOMAIN hlog :
              hlog[i].verdict # "online" =>
                  hlog[i].node \notin SeqRange(fileRec.replica_nodes.list)

\* C24: in every state of a File row, whatever uploads and failovers came
\* before, its primary_node is not one of its replica nodes.
C24_PrimaryNotAReplica ==
    fileRec.exists => fileRec.primary_node \notin SeqRange(fileRec.replica_nodes.list)

\* C25: whenever handle_primary_failure returns a node for a file that has
\* its row, the row's primary_node is that node and the row's replica list
\* does not hold it; no node is reported while the row still names the
\* failed primary.
C25_ReportedPrimaryIsRecorded ==
    (hpc = "returned" /\ hret # NoNode /\ hreq.db = "db" /\ hrec.exists) =>
        /\ fileRec.primary_node = hret
        /\ hret \notin SeqRange(fileRec.replica_nodes.list)

Committed == {k \in FileIds : dbFiles[k].exists}

\* nothing of call k is left: no File row, no counter, no object on any node
NothingCreated(k) ==
    /\ ~dbFiles[k].exists
    /\ ~counters[k].present
    /\ \A n \in Nodes : disk[n][k] = <<>>

\* C6: two chunk_complete calls on a session whose parts are all present (Redis
\* reachable, a node available, no checksum mismatch) end with exactly one
\* commit and one rejection, and exactly one File row exists.
C6_FinalizeExactlyOnce ==
    ( /\ ~usingFallback
      /\ fcalls = 2
      /\ \A f \in Finalizers : fpc[f] = "idle"
      /\ \A k \in 1..2 : flog[k].out \in {"ok", "locked", "not_found"} )
    => /\ Cardinality({k \in 1..2 : flog[k].out = "ok"}) = 1
       /\ Cardinality(Committed) = 1

\* C7: a call that has returned does not leave its lock behind, whatever its
\* exit path: whenever upload:{upload_id}:lock is held, the call that set it
\* is still running.
C7_LockReleasedOnReturn ==
    \A f \in Finalizers : fpc[f] = "idle" => upLock # f

\* C7 witness: a call that had acquired the lock has returned with a failure
\* and the lock is free.
C7_Witness ==
    /\ \E k \in FileIds :
        flog[k].out \in {"not_found", "incomplete", "no_nodes", "checksum", "error"}
    /\ \A f \in Finalizers : fpc[f] = "idle"
    /\ upLock = "free"

\* C8: when no chunk_upload overlaps the call, the stitched object is the
\* concatenation of the last accepted bytes of parts 1..parts_expected in
\* ascending part number, whatever the order the parts arrived in.
C8_StitchAscending ==
    \A f \in Finalizers :
        (fpc[f] \in {"verify", "replicate", "commit", "publish"} /\ quiet[f])
            => disk[fprim[f]][FileOf(f)] = <<Concat(latest, 1, fmf[f].parts_expected)>>

\* C8 witness: part 2 arrived before part 1, with different bytes, and the
\* object has been stitched.
C8_Witness ==
    \E f \in Finalizers :
        /\ fpc[f] = "commit"
        /\ quiet[f]
        /\ fmf[f].order = <<2, 1>>
        /\ latest[1] # latest[2]

PastCompletenessCheck ==
    {"select", "open", "stitch", "verify", "replicate", "commit", "publish", "cleanup"}

C9_State ==
    /\ \A f \in Finalizers :
        fpc[f] \in PastCompletenessCheck => fmf[f].received = fmf[f].parts_expected
    /\ \A k \in FileIds : flog[k].out = "incomplete" => NothingCreated(k)

C9_Step ==
    \A f \in Finalizers :
        (fpc'[f] # fpc[f] /\ fout'[f] = "incomplete")
            => UNCHANGED <<manifest, chunkFiles, dbFiles, disk, counters, metaCache, nodes>>

\* C9: a call goes past the completeness check only with received equal to
\* parts_expected; otherwise it returns the error, and none of its steps
\* creates a File row, writes an object, sets a counter or changes the
\* manifest.
C9_CommitOnlyWhenComplete == []C9_State /\ [][C9_Step]_vars

\* C9 witness: a call has returned 'Not all parts uploaded'.
C9_Witness == \E k \in FileIds : flog[k].out = "incomplete"

C10_State ==
    /\ \A k \in FileIds : flog[k].out = "checksum" => NothingCreated(k)
    /\ \A f \in Finalizers :
        (fpc[f] = "release" /\ fout[f] = "checksum") => NothingCreated(FileOf(f))
    /\ \A k \in FileIds :
        (dbFiles[k].exists /\ flog[k].file_checksum # NoChecksum)
            => dbFiles[k].checksum = flog[k].file_checksum

C10_Step ==
    \A n \in Nodes :
        (nodes'[n].used_space # nodes[n].used_space \/ nodes'[n].file_count # nodes[n].file_count)
            => \E k \in FileIds : ~dbFiles[k].exists /\ dbFiles'[k].exists

\* C10: a call whose file_checksum differs from the stitched object's checksum
\* leaves no File row, no counter and no object on any node, and used_space
\* and file_count change only in the step that commits a File row.
C10_ChecksumMismatchAborts == []C10_State /\ [][C10_Step]_vars

\* C10 witness: a call has returned 'Final checksum mismatch'.
C10_Witness == \E k \in FileIds : flog[k].out = "checksum"

\* the calls between their acquire_lock and their finally clause
InGuardedSection == {f \in Finalizers : fpc[f] \notin {"idle", "release"}}

\* C31: the lock-guarded sections of chunk_complete calls on one upload_id
\* never overlap, a call that runs longer than the 60 s TTL of its lock
\* included: at most one call is past acquire_lock and before its finally
C31_GuardedSectionsDisjoint == Cardinality(InGuardedSection) <= 1

\* C32: a chunk_complete call deletes lock:upload:{upload_id}:lock only while
\* the key is its own: when its lock has expired and another call has taken
\* the key, the finally clause of the first call leaves that key in place
C32_ReleaseOnlyOwnLock ==
    [][\A f \in Finalizers :
         (fpc[f] = "release" /\ fpc'[f] = "idle" /\ upLock \notin {f, "free"})
         => upLock' = upLock]_vars

\* C33: release is atomic towards the other callers: whatever the expiry of
\* the key and the acquire calls of others do between its GET and its DELETE,
\* a key that holds another caller's token when release deletes is left as
\* it is
C33_ReleaseAtomic ==
    [][\A c \in Callers :
         (DlmReleaseDelete(c) /\ dlmVal \notin {NoToken, darg[c]})
         => dlmVal' = dlmVal]_vars

\* the requests on file k between their acquire_lock and their release_lock
HoldingDownloadLock(k) ==
    {d \in Downloaders : dlfile[d] = k /\ dlpc[d] \in {"decr", "update", "serve"}}

C34_State == \A k \in FileIds : Cardinality(HoldingDownloadLock(k)) <= 1

C34_Step ==
    \A k \in FileIds, d \in Downloaders :
        (dlLock[k] = d /\ dlLock'[k] # d) => dlpc'[d] # dlpc[d]

\* C34: in every interleaving of download_file requests for one file, the
\* key download_lock:{file_id} set by a request is removed only by a step of
\* that request, and at most one request at a time is between its
\* acquire_lock and its release_lock
C34_DownloadLockExclusive == []C34_State /\ [][C34_Step]_vars

\* the parts for which a chunk_upload request has answered 200
AcceptedParts == {p \in DOMAIN latest : latest[p] # <<>>}

\* C35: no chunk write is lost: once the chunk_upload requests have all
\* returned, in whatever way they overlapped, the manifest records every part
\* a request answered 200 for, and received is the number of those parts
C35_NoChunkLost ==
    (\A u \in Uploaders : upc[u] = "idle")
    => /\ \A p \in AcceptedParts : HasPart(manifest, p)
       /\ manifest.received = Cardinality(AcceptedParts)

\* C36: after any sequence of chunk_upload requests, retries of a stored part
\* that fail the checksum comparison included, every part number recorded in
\* the manifest has its part file in temp_dir
C36_RecordedPartsHaveFiles ==
    (manifest.exists /\ \A u \in Uploaders : upc[u] = "idle")
    => \A p \in SeqRange(manifest.order) : chunkFiles[p] # <<>>

\* C37: the file_size chunk_complete stores in the File row, the size it
\* passes to the selector and adds to used_space, is the byte length of the
\* object it stitched on the primary node
C37_FileSizeIsStitchedLength ==
    \A k \in FileIds :
        (dbFiles[k].exists /\ disk[dbFiles[k].primary_node][k] # <<>>)
        => dbFiles[k].file_size = Len(disk[dbFiles[k].primary_node][k][1])

\* C38: when a download_file request has served the file, the File row's
\* downloads_left is the value of count:{file_id}, which is download_limit
\* less the number of downloads served so far
C38_RowMatchesCounter ==
    \A d \in Downloaders :
        (dlpc[d] = "finally" /\ dlout[d] = "served")
        => LET k == dlfile[d] IN
            /\ dbFiles[k].downloads_left = counters[k].val
            /\ counters[k].val = dbFiles[k].download_limit - served[k]

\* C39: a RedisClient on its InMemoryCache fallback answers every call as one
\* on Redis does, the keys being absent, present or expired: acquire_lock,
\* release_lock, is_locked, set_download_counter and decrement_counter return
\* the same value over both stores
C39_FallbackSameResults == fbLast.redis = fbLast.memory

\* C40: whatever the verdicts of the sweeps the monitor has made since the
\* table was new, every node whose error_count is 5 or more is offline
C40_ManyErrorsMeansOffline ==
    \A n \in DOMAIN nodes :
        nodes[n].error_count >= OfflineThreshold => ~nodes[n].is_online

====
